---- MODULE Spec2Model ----
(***************************************************************************)
(* A model of the SCP label maker's rendering core: the image resizer      *)
(* (core/image_processor.rs), the asset set (core/asset_manager.rs), the   *)
(* label composer (core/label_composer.rs) and the burn-mask generator     *)
(* (core/noise_generator.rs).                                              *)
(*                                                                         *)
(* Each component has its own specification over its own variables; the    *)
(* variables of the other components stay at their initial values.         *)
(***************************************************************************)
EXTENDS Integers, Sequences, FiniteSets, TLC

VARIABLES
    \* ---- ImageProcessor::process_user_image
    image,        \* the source image handed to process_user_image (its dimensions)
    method,       \* the ResizeMethod
    processed,    \* the returned RgbaImage (dimensions and how it was built), or NoImage
    \* ---- AssetManager / LabelComposer::compose
    disk,         \* the asset paths that load_asset can load (ZIP packs or disk)
    assets,       \* the AssetManager handed to compose, NoAssets before it exists
    load_result,  \* what AssetManager::load_all returned: "none", "Ok", "Err"
    config,       \* the LabelConfig handed to compose
    override,     \* the already-decoded image override handed to compose
    pc,           \* compose's position
    canvas,       \* compose's local canvas
    steps,        \* the steps of compose executed so far, in order
    opened,       \* the user-image paths opened by this compose call
    masks,        \* the burn masks generated by this compose call
    result,       \* what compose returned: "none", an Ok raster or an Err
    \* ---- LabelComposer::apply_texture on pixels
    tex_canvas,   \* the canvas pixels before apply_texture
    tex_texture,  \* the texture pixels
    tex_opacity,  \* the opacity argument
    tex_out,      \* the canvas pixels after apply_texture, NoImage before
    \* ---- generate_burn_mask
    burn_cfg,     \* the burn parameters of the config
    burn_noise,   \* the noise layers the noise crate produced
    burn_mask,    \* the returned mask, NoImage before
    burn_mask2,   \* the mask a second call with the same arguments returned
    burn_layers,  \* the noise layers the call asked for, each with its scale
    burn_seeds,   \* the noise functions the call built, each with its seed
    burn_canvas,  \* the canvas pixels the mask is applied to
    burn_out,     \* the canvas pixels after the burn step, NoImage before
    \* ---- TextRenderer::render_text, render_text_with_stroke
    txt_args,     \* the arguments of the call and what text_size measures
    txt_call,     \* "none", or the function that was called and has returned
    txt_canvas,   \* the draw_text_mut calls made on the canvas, in order
    \* ---- App::update
    app_config,        \* App::config
    app_assets,        \* "loading", "ready" (assets and composer are Some), "failed"
    app_regen,         \* the RegeneratePreview messages queued
    app_notices,       \* the ShowNotification messages queued
    app_renders,       \* the render tasks in flight, each with its config clone
    app_spawned,       \* the number of render tasks spawned so far
    app_preview,       \* the task whose result App::preview_handle shows
    app_newest_shown,  \* the latest-spawned task whose result has been shown
    app_modal_error,   \* App::modal_error: NoImage for None, or the error's text
    app_notification,  \* App::notification_message is Some
    app_edits,         \* the number of messages the user's actions have sent
    app_gif_frames,        \* App::gif_frames: NoImage for None, or the frames
    app_gif_frame_delays,  \* App::gif_frame_delays
    app_frame_index,       \* App::current_frame_index (counted from 0)
    app_gif_playing,       \* App::gif_playing
    app_validation,        \* App::validation
    app_panicked,          \* update has panicked: the application is gone
    app_loaded,            \* a config or project was loaded and no image has
                           \* been selected since
    \* ---- two compose calls running concurrently on one AssetManager
    given,        \* the AssetManager and the arguments the two calls were given,
                  \* and what compose returns for each when it runs alone
    running,      \* the call (1 or 2) whose locals the compose variables hold
    parked,       \* the locals of the other call, NoImage when there is none
    interleaved   \* a call has run between two statements of the other

resizeVars  == <<image, method, processed>>
composeVars == <<disk, assets, load_result, config, override, pc, canvas, steps,
                 opened, masks, result>>
textureVars == <<tex_canvas, tex_texture, tex_opacity, tex_out>>
burnVars    == <<burn_cfg, burn_noise, burn_mask, burn_mask2, burn_layers, burn_seeds,
                 burn_canvas, burn_out>>
textVars    == <<txt_args, txt_call, txt_canvas>>
gifFields   == <<app_gif_frames, app_gif_frame_delays, app_frame_index,
                 app_gif_playing, app_validation>>
gifVars     == <<gifFields, app_panicked, app_loaded>>
appVars     == <<app_config, app_assets, app_regen, app_notices, app_renders,
                 app_spawned, app_preview, app_newest_shown, app_modal_error,
                 app_notification, app_edits, gifVars>>
twoVars     == <<given, running, parked, interleaved>>
vars == <<resizeVars, composeVars, textureVars, burnVars, textVars, appVars, twoVars>>

NoImage == [none |-> TRUE]

Min(a, b) == IF a < b THEN a ELSE b
Max(a, b) == IF a > b THEN a ELSE b

-----------------------------------------------------------------------------
(* models/layout.rs                                                         *)

LABEL_SIZE == 512

NormalLayout_USER_IMAGE == [x |-> 264, y |-> 256, width |-> 233, height |-> 240]
NormalLayout_HAZARD_ICON == [x |-> 15, y |-> 256, width |-> 233, height |-> 240]
AlternateLayout_HAZARD_ICON == [x |-> 137, y |-> 256, width |-> 233, height |-> 240]

ResizeMethod == {"CropToFit", "Stretch", "Letterbox"}

-----------------------------------------------------------------------------
(* f32 arithmetic on positive values, as IEEE 754 binary32 computes it       *)
(* (round to nearest, ties to even). A value is [m, e], standing for         *)
(* m * 2^e with 2^23 <= m < 2^24, or m = 0 for zero. The image dimensions     *)
(* of the model stay far from the exponent limits.                           *)

RECURSIVE F32Norm(_, _)
F32Norm(m, e) ==
    IF m = 0 THEN [m |-> 0, e |-> 0]
    ELSE IF m < 8388608 THEN F32Norm(2 * m, e - 1)
    ELSE [m |-> m, e |-> e]

\* `n as f32` for 0 <= n < 2^24 (exact).
F32FromU32(n) == F32Norm(n, 0)

\* Round the integer mantissa q (2^23 <= q < 2^24) with the discarded part
\* compared to one half: rem2 is twice the remainder, unit the divisor.
F32Round(q, e, rem2, unit) ==
    LET up == (rem2 > unit) \/ (rem2 = unit /\ q % 2 = 1)
        q1 == IF up THEN q + 1 ELSE q
    IN  IF q1 = 16777216 THEN [m |-> 8388608, e |-> e + 1] ELSE [m |-> q1, e |-> e]

\* n quotient bits of r / d, one at a time; r < 2d on entry. Returns the
\* quotient and twice the remainder.
RECURSIVE F32LongDiv(_, _, _, _)
F32LongDiv(r, d, n, q) ==
    IF n = 0 THEN [q |-> q, r |-> r]
    ELSE LET bit == IF r >= d THEN 1 ELSE 0
         IN  F32LongDiv(2 * (r - bit * d), d, n - 1, 2 * q + bit)

\* a / b
F32Div(a, b) ==
    IF a.m = 0 THEN a
    ELSE LET k  == IF a.m < b.m THEN 24 ELSE 23
             qr == F32LongDiv(a.m, b.m, k + 1, 0)
         IN  F32Round(qr.q, a.e - b.e - k, qr.r, b.m)

\* a * b, the 48-bit product held in 12-bit limbs
F32Mul(a, b) ==
    IF a.m = 0 \/ b.m = 0 THEN [m |-> 0, e |-> 0]
    ELSE LET a1 == a.m \div 4096   a0 == a.m % 4096
             b1 == b.m \div 4096   b0 == b.m % 4096
             c0 == a0 * b0
             l0 == c0 % 4096
             c1 == a1 * b0 + a0 * b1 + (c0 \div 4096)
             l1 == c1 % 4096
             c2 == a1 * b1 + (c1 \div 4096)
             top == c2
         IN  IF top >= 8388608
             THEN F32Round(top, a.e + b.e + 24, l1 * 4096 + l0, 8388608)
             ELSE F32Round(2 * top + (l1 \div 2048), a.e + b.e + 23,
                           (l1 % 2048) * 4096 + l0, 4194304)

\* a > b
F32Gt(a, b) ==
    IF b.m = 0 THEN a.m > 0
    ELSE IF a.m = 0 THEN FALSE
    ELSE a.e > b.e \/ (a.e = b.e /\ a.m > b.m)

\* `x as u32`: truncation toward zero
F32ToU32(x) ==
    IF x.m = 0 THEN 0
    ELSE IF x.e >= 0 THEN x.m * (2 ^ x.e)
    ELSE IF x.e < -24 THEN 0
    ELSE x.m \div (2 ^ (0 - x.e))

-----------------------------------------------------------------------------
(* The image crate, by its contract on dimensions.                          *)

\* imageops::resize(image, nwidth, nheight, filter): a new buffer of exactly
\* nwidth x nheight, whatever the source's size.
ImageopsResize(img, nwidth, nheight) ==
    [width |-> nwidth, height |-> nheight]

\* DynamicImage::crop_imm(x, y, width, height): the view is clamped to the image.
CropImm(img, x, y, width, height) ==
    LET cx == Min(x, img.width)
        cy == Min(y, img.height)
    IN  [width  |-> Min(width, img.width - cx),
         height |-> Min(height, img.height - cy)]

\* imageops::overlay(bottom, top, x, y) draws into bottom: its size is kept.
ImageopsOverlay(bottom, top, x, y) ==
    [width |-> bottom.width, height |-> bottom.height]

-----------------------------------------------------------------------------
(* core/image_processor.rs                                                  *)

\* `(a - b) / 2` on u32. With overflow checks the subtraction panics when
\* a < b; without them it wraps modulo 2^32 before the division.
U32HalfDiff(a, b) ==
    IF a >= b THEN [v |-> (a - b) \div 2, underflow |-> FALSE]
    ELSE [v |-> 2147483647 - ((b - a - 1) \div 2), underflow |-> TRUE]

F32Ratio(w, h) == F32Div(F32FromU32(w), F32FromU32(h))

\* A crop rectangle that takes the branches the other way round: the full
\* extent of the longer axis.
CropRectOuter(img, target_w, target_h) ==
    LET img_ratio    == F32Ratio(img.width, img.height)
        target_ratio == F32Ratio(target_w, target_h)
        wider  == F32Gt(img_ratio, target_ratio)
        crop_w == IF wider THEN img.width ELSE (img.height * target_w) \div target_h
        crop_h == IF wider THEN (img.width * target_h) \div target_w ELSE img.height
        x == U32HalfDiff(img.width, crop_w)
        y == U32HalfDiff(img.height, crop_h)
    IN  [x |-> x.v, y |-> y.v, crop_w |-> crop_w, crop_h |-> crop_h,
         wider |-> wider, underflow |-> x.underflow \/ y.underflow]

\* The crop rectangle of crop_to_fit.
CropRect(img, target_w, target_h) ==
    LET img_ratio    == F32Ratio(img.width, img.height)
        target_ratio == F32Ratio(target_w, target_h)
        wider  == F32Gt(img_ratio, target_ratio)
        crop_w == IF wider THEN (img.height * target_w) \div target_h ELSE img.width
        crop_h == IF wider THEN img.height ELSE (img.width * target_h) \div target_w
        x == U32HalfDiff(img.width, crop_w)
        y == U32HalfDiff(img.height, crop_h)
    IN  [x |-> x.v, y |-> y.v, crop_w |-> crop_w, crop_h |-> crop_h,
         wider |-> wider, underflow |-> x.underflow \/ y.underflow]

\* crop_to_fit without its closing resize
crop_to_fit_cropped_only(img, target_w, target_h) ==
    LET r       == CropRect(img, target_w, target_h)
        cropped == CropImm(img, r.x, r.y, r.crop_w, r.crop_h)
    IN  [width |-> cropped.width, height |-> cropped.height, via |-> "CropToFit",
         geom |-> r, from |-> cropped]

crop_to_fit(img, target_w, target_h) ==
    LET r       == CropRect(img, target_w, target_h)
        cropped == CropImm(img, r.x, r.y, r.crop_w, r.crop_h)
        out     == ImageopsResize(cropped, target_w, target_h)
    IN  [width |-> out.width, height |-> out.height, via |-> "CropToFit",
         geom |-> r, from |-> cropped]

stretch(img, target_w, target_h) ==
    LET out == ImageopsResize(img, target_w, target_h)
    IN  [width |-> out.width, height |-> out.height, via |-> "Stretch",
         geom |-> [underflow |-> FALSE], from |-> img]

\* A scaled size that covers the target instead of fitting inside it.
LetterboxRectCover(img, target_w, target_h) ==
    LET img_ratio    == F32Ratio(img.width, img.height)
        target_ratio == F32Ratio(target_w, target_h)
        wider   == F32Gt(img_ratio, target_ratio)
        scale_w == IF wider THEN F32ToU32(F32Mul(F32FromU32(target_h), img_ratio))
                   ELSE target_w
        scale_h == IF wider THEN target_h
                   ELSE F32ToU32(F32Div(F32FromU32(target_w), img_ratio))
        x == U32HalfDiff(target_w, scale_w)
        y == U32HalfDiff(target_h, scale_h)
    IN  [x |-> x.v, y |-> y.v, scale_w |-> scale_w, scale_h |-> scale_h,
         wider |-> wider, underflow |-> x.underflow \/ y.underflow]

\* The scaled size and the offset of letterbox.
LetterboxRect(img, target_w, target_h) ==
    LET img_ratio    == F32Ratio(img.width, img.height)
        target_ratio == F32Ratio(target_w, target_h)
        wider   == F32Gt(img_ratio, target_ratio)
        scale_w == IF wider THEN target_w
                   ELSE F32ToU32(F32Mul(F32FromU32(target_h), img_ratio))
        scale_h == IF wider THEN F32ToU32(F32Div(F32FromU32(target_w), img_ratio))
                   ELSE target_h
        x == U32HalfDiff(target_w, scale_w)
        y == U32HalfDiff(target_h, scale_h)
    IN  [x |-> x.v, y |-> y.v, scale_w |-> scale_w, scale_h |-> scale_h,
         wider |-> wider, underflow |-> x.underflow \/ y.underflow]

letterbox(img, target_w, target_h) ==
    LET r      == LetterboxRect(img, target_w, target_h)
        scaled == ImageopsResize(img, r.scale_w, r.scale_h)
        white  == [width |-> target_w, height |-> target_h]
        out    == ImageopsOverlay(white, scaled, r.x, r.y)
    IN  [width |-> out.width, height |-> out.height, via |-> "Letterbox",
         geom |-> r, from |-> scaled]

process_user_image(img, m, rect) ==
    CASE m = "CropToFit" -> crop_to_fit(img, rect.width, rect.height)
      [] m = "Stretch"   -> stretch(img, rect.width, rect.height)
      [] m = "Letterbox" -> letterbox(img, rect.width, rect.height)

\* What a call can end in: the image, or, where a u32 subtraction went below
\* zero, a panic (overflow checks on) or the image built from the wrapped value.
Panicked == [panic |-> TRUE]
ResizeOutcomes(res) == IF res.geom.underflow THEN {Panicked, res} ELSE {res}

\* Source sizes: the small ones up to MaxSmallDim, and sizes around the
\* user-image slot (233 x 240) and beyond it.
MaxSmallDim == 3
SourceDims == (1 .. MaxSmallDim) \cup {21, 40, 233, 240, 466, 480, 1000}

ResizeIdle == image = NoImage /\ method = "CropToFit" /\ processed = NoImage

InitResizeInputs ==
    /\ image \in [width : SourceDims, height : SourceDims]
    /\ method \in ResizeMethod
    /\ processed = NoImage

ProcessUserImage ==
    /\ image # NoImage
    /\ processed = NoImage
    /\ processed' \in ResizeOutcomes(process_user_image(image, method, NormalLayout_USER_IMAGE))
    /\ UNCHANGED <<image, method>>
    /\ UNCHANGED <<composeVars, textureVars, burnVars, textVars, appVars, twoVars>>

-----------------------------------------------------------------------------
(* models/class_type.rs, models/hazard.rs: two of the eight classes and one  *)
(* of the fourteen hazards stand for all of them (the code treats every       *)
(* class and every hazard alike).                                            *)

ClassType == {"Safe", "Keter"}
Hazard == {"Cognitohazard"}
None == "None"

label_path(class, alternate) ==
    [kind |-> "label", class |-> class,
     variant |-> IF alternate THEN "label_2.jpg" ELSE "label.jpg"]
icon_path(hazard, class) ==
    [kind |-> "warnings", class |-> class, variant |-> hazard]
texture_path == [kind |-> "textures", class |-> "-", variant |-> "dirty_overlay.png"]

AssetPaths ==
    {label_path(c, a) : c \in ClassType, a \in BOOLEAN}
    \cup {icon_path(h, c) : h \in Hazard, c \in ClassType}
    \cup {texture_path}

-----------------------------------------------------------------------------
(* core/asset_manager.rs                                                    *)

\* The size of an asset as stored in the packs or on disk: templates and the
\* texture are larger than the label, icons are small.
StoredSize(path) == IF path.kind = "warnings" THEN 128 ELSE 1024

\* finalize_image: a square asset is resized to LABEL_SIZE when asked to.
finalize_image(path, should_resize) ==
    LET n == StoredSize(path)
        size == IF should_resize /\ n # LABEL_SIZE THEN LABEL_SIZE ELSE n
    IN  [width |-> size, height |-> size, name |-> path]

\* load_asset: Ok with the image when a pack or the disk holds the path.
load_asset(path, files, should_resize) ==
    IF path \in files
    THEN [ok |-> TRUE, image |-> finalize_image(path, should_resize)]
    ELSE [ok |-> FALSE, error |-> "ImageLoading"]

placeholder_image ==
    [width |-> 1, height |-> 1,
     name |-> [kind |-> "placeholder", class |-> "-", variant |-> "-"]]

\* The (primary, alternate) pair load_all stores for a class.
LoadedTemplates(class, files) ==
    LET primary   == load_asset(label_path(class, FALSE), files, TRUE)
        alternate == load_asset(label_path(class, TRUE), files, TRUE)
    IN  [primary   |-> primary.image,
         alternate |-> IF alternate.ok THEN alternate.image ELSE primary.image]

\* load_all failing on any missing asset
load_all_strict(files) ==
    IF \E path \in AssetPaths : ~load_asset(path, files, TRUE).ok
    THEN [ok |-> FALSE, error |-> "ImageLoading"]
    ELSE [ok |-> TRUE,
          value |->
            [templates    |-> [class \in ClassType |-> LoadedTemplates(class, files)],
             hazard_icons |->
                [k \in ClassType \X Hazard
                   |-> load_asset(icon_path(k[2], k[1]), files, FALSE).image],
             texture_overlay |-> load_asset(texture_path, files, TRUE).image,
             placeholder  |-> placeholder_image]]

load_all(files) ==
    IF \E class \in ClassType : ~load_asset(label_path(class, FALSE), files, TRUE).ok
    THEN [ok |-> FALSE, error |-> "ImageLoading"]
    ELSE [ok |-> TRUE,
          value |->
            [templates    |-> [class \in ClassType |-> LoadedTemplates(class, files)],
             hazard_icons |->
                [k \in {p \in ClassType \X Hazard :
                            load_asset(icon_path(p[2], p[1]), files, FALSE).ok}
                   |-> load_asset(icon_path(k[2], k[1]), files, FALSE).image],
             texture_overlay |->
                LET t == load_asset(texture_path, files, TRUE)
                IN  IF t.ok THEN t.image ELSE placeholder_image,
             placeholder  |-> placeholder_image]]

get_template(a, class, alternate) ==
    IF class \in DOMAIN a.templates
    THEN IF alternate THEN a.templates[class].alternate ELSE a.templates[class].primary
    ELSE a.placeholder

get_hazard_icon(a, class, hazard) ==
    IF <<class, hazard>> \in DOMAIN a.hazard_icons
    THEN a.hazard_icons[<<class, hazard>>]
    ELSE a.placeholder

get_texture(a) == a.texture_overlay

\* The asset files that may be absent from the packs and the disk: at most
\* MaxMissing of them at a time.
MaxMissing == 1
Disks == {d \in SUBSET AssetPaths : Cardinality(AssetPaths \ d) <= MaxMissing}

NoAssets == [none |-> TRUE]

\* AssetManager::load_all() against the packs and the disk.
LoadAll ==
    /\ load_result = "none"
    /\ assets = NoAssets
    /\ LET r == load_all(disk)
       IN  IF r.ok
           THEN assets' = r.value /\ load_result' = "Ok"
           ELSE assets' = assets /\ load_result' = "Err"
    /\ UNCHANGED <<disk, config, override, pc, canvas, steps, opened, masks, result>>
    /\ UNCHANGED <<resizeVars, textureVars, burnVars, textVars, appVars, twoVars>>

\* An AssetManager a caller builds itself (the struct and its fields are
\* public): the loaded one without the templates of some classes.
AssetsSupplied ==
    /\ load_result = "none"
    /\ assets = NoAssets
    /\ disk = AssetPaths
    /\ \E kept \in (SUBSET ClassType) \ {ClassType} :
         LET full == load_all(AssetPaths).value
         IN  assets' = [full EXCEPT !.templates = [c \in kept |-> full.templates[c]]]
    /\ load_result' = "Supplied"
    /\ UNCHANGED <<disk, config, override, pc, canvas, steps, opened, masks, result>>
    /\ UNCHANGED <<resizeVars, textureVars, burnVars, textVars, appVars, twoVars>>

-----------------------------------------------------------------------------
(* models/label_config.rs: LabelConfig. An f32 field holds its value in      *)
(* thousandths (1200 is 1.2).                                                *)

DefaultConfig ==
    [scp_number             |-> <<"1", "7", "3">>,
     object_class_text      |-> <<"S", "A", "F", "E">>,
     class_type             |-> "Safe",
     use_alternate_style    |-> FALSE,
     image_path             |-> None,
     resize_method          |-> "CropToFit",
     selected_hazard        |-> None,
     apply_texture          |-> FALSE,
     texture_opacity        |-> 300,
     output_resolution      |-> 512,
     brightness             |-> 0,
     contrast               |-> 1000,
     grayscale              |-> FALSE,
     scp_number_font_size   |-> 60000,
     object_class_font_size |-> 60000,
     scp_text_offset        |-> <<2000, -7000>>,
     class_text_offset      |-> <<2000, -7000>>,
     scp_line_spacing       |-> 1200,
     class_line_spacing     |-> 1200,
     apply_burn             |-> FALSE]

\* The user's image files: one that opens, one that does not.
ReadablePath == "photo.png"
MissingPath  == "missing.png"
UserImage(path) == [width |-> 640, height |-> 480, name |-> path]
FrameImage == [width |-> 320, height |-> 200, name |-> "frame"]

\* Output resolutions: the label's own size and the sizes of OtherResolutions.
OtherResolutions == {256}

Configs ==
    {[DefaultConfig EXCEPT
        !.class_type = class, !.use_alternate_style = alt, !.image_path = path,
        !.resize_method = m,
        !.selected_hazard = hazard, !.apply_texture = tex, !.apply_burn = burn,
        !.output_resolution = res] :
        class \in ClassType, alt \in BOOLEAN,
        path \in {None, ReadablePath, MissingPath}, m \in ResizeMethod,
        hazard \in Hazard \cup {None}, tex \in BOOLEAN, burn \in BOOLEAN,
        res \in {LABEL_SIZE} \cup OtherResolutions}

-----------------------------------------------------------------------------
(* models/layout.rs: the text regions                                        *)

CommonLayout_SCP_NUMBER == [x |-> 113, y |-> 165, max_width |-> 240, alignment |-> "Left"]
CommonLayout_OBJECT_CLASS_TEXT == [x |-> 304, y |-> 226, max_width |-> 150, alignment |-> "Left"]
AlternateLayout_SCP_NUMBER == [x |-> 268, y |-> 167, max_width |-> 150, alignment |-> "Left"]
AlternateLayout_OBJECT_CLASS_TEXT == [x |-> 347, y |-> 226, max_width |-> 150, alignment |-> "Left"]

-----------------------------------------------------------------------------
(* core/label_composer.rs: LabelComposer::compose, one action per statement. *)
(* The canvas is its size and the list of what was drawn on it.              *)

NoResult == [status |-> "none"]

\* compose with the hazard icon placed before the user image
CodeOrderHazardsFirst ==
    <<"template", "scp_number", "object_class", "hazards", "user_image", "texture",
      "resize">>

\* compose with the texture blended before the hazard icon is placed
CodeOrderTextureFirst ==
    <<"template", "scp_number", "object_class", "user_image", "texture", "hazards",
      "resize">>

\* The statements of compose, in the order the function runs them.
CodeOrder ==
    <<"template", "scp_number", "object_class", "user_image", "hazards", "texture",
      "resize">>

RECURSIVE InsertAfter(_, _, _)
InsertAfter(seq, x, y) ==
    IF seq = <<>> THEN <<>>
    ELSE IF Head(seq) = x THEN <<x, y>> \o Tail(seq)
    ELSE <<Head(seq)>> \o InsertAfter(Tail(seq), x, y)

\* With the burn overlay: after the texture blend, before the output resize.
ComposeOrder == InsertAfter(CodeOrder, "texture", "burn")

\* The statement after p; compose returns after the last one.
After(p) ==
    LET i == CHOOSE k \in DOMAIN ComposeOrder : ComposeOrder[k] = p
    IN  IF i = Len(ComposeOrder) THEN "returned" ELSE ComposeOrder[i + 1]

Draw(cv, op) == [cv EXCEPT !.content = Append(@, op)]

ComposeIdle ==
    /\ config = DefaultConfig /\ override = NoImage /\ pc = "idle"
    /\ canvas = NoImage /\ steps = <<>> /\ opened = <<>> /\ masks = <<>>
    /\ result = NoResult

\* Configs whose SCP number holds a line break ("\\n" typed into the text
\* field), under equal and unequal line spacings of the two text fields.
TextConfigs ==
    {[DefaultConfig EXCEPT !.scp_number = <<"1", "\\n", "7">>,
                           !.use_alternate_style = alt,
                           !.scp_line_spacing = scp, !.class_line_spacing = class] :
        alt \in BOOLEAN, scp \in {1200, 3000}, class \in {1200, 3000}}

\* compose(&self, config, assets, image_override) is called.
ComposeCall ==
    /\ pc = "idle"
    /\ assets # NoAssets
    /\ config' \in Configs \cup TextConfigs
    /\ override' \in {NoImage, FrameImage}
    /\ pc' = Head(ComposeOrder)
    /\ UNCHANGED <<disk, assets, load_result, canvas, steps, opened, masks, result>>
    /\ UNCHANGED <<resizeVars, textureVars, burnVars, textVars, appVars, twoVars>>

\* compose taking the template out of the asset set instead of cloning it
SelectTemplateTaking ==
    /\ pc = "template"
    /\ LET t == get_template(assets, config.class_type, config.use_alternate_style)
       IN  canvas' = [width |-> t.width, height |-> t.height,
                      content |-> <<[op |-> "template", name |-> t.name]>>]
    /\ assets' = [assets EXCEPT !.templates =
                     [c \in DOMAIN assets.templates \ {config.class_type}
                        |-> assets.templates[c]]]
    /\ steps' = Append(steps, "template")
    /\ pc' = After("template")
    /\ UNCHANGED <<disk, load_result, config, override, opened, masks, result>>
    /\ UNCHANGED <<resizeVars, textureVars, burnVars, textVars, appVars, twoVars>>

\* let mut canvas = assets.get_template(class_type, use_alternate_style).clone().into();
SelectTemplate ==
    /\ pc = "template"
    /\ LET t == get_template(assets, config.class_type, config.use_alternate_style)
       IN  canvas' = [width |-> t.width, height |-> t.height,
                      content |-> <<[op |-> "template", name |-> t.name]>>]
    /\ steps' = Append(steps, "template")
    /\ pc' = After("template")
    /\ UNCHANGED <<disk, assets, load_result, config, override, opened, masks, result>>
    /\ UNCHANGED <<resizeVars, textureVars, burnVars, textVars, appVars, twoVars>>

\* render_text records what it was asked to draw.
render_text(cv, text, region, font_size, offset, line_spacing_multiplier) ==
    Draw(cv, [op |-> "text", text |-> text, region |-> region, font_size |-> font_size,
              offset |-> offset, line_spacing |-> line_spacing_multiplier])

render_scp_number(cv, cfg) ==
    render_text(cv, cfg.scp_number,
                IF cfg.use_alternate_style THEN AlternateLayout_SCP_NUMBER
                                           ELSE CommonLayout_SCP_NUMBER,
                cfg.scp_number_font_size, cfg.scp_text_offset, cfg.class_line_spacing)

RenderScpNumber ==
    /\ pc = "scp_number"
    /\ canvas' = render_scp_number(canvas, config)
    /\ steps' = Append(steps, "scp_number")
    /\ pc' = After("scp_number")
    /\ UNCHANGED <<disk, assets, load_result, config, override, opened, masks, result>>
    /\ UNCHANGED <<resizeVars, textureVars, burnVars, textVars, appVars, twoVars>>

RenderObjectClass ==
    /\ pc = "object_class"
    /\ canvas' = render_text(canvas, config.object_class_text,
                    IF config.use_alternate_style THEN AlternateLayout_OBJECT_CLASS_TEXT
                                                  ELSE CommonLayout_OBJECT_CLASS_TEXT,
                    config.object_class_font_size, config.class_text_offset,
                    config.class_line_spacing)
    /\ steps' = Append(steps, "object_class")
    /\ pc' = After("object_class")
    /\ UNCHANGED <<disk, assets, load_result, config, override, opened, masks, result>>
    /\ UNCHANGED <<resizeVars, textureVars, burnVars, textVars, appVars, twoVars>>

\* image::open(path)
OpenUserImage(path) ==
    IF path = ReadablePath
    THEN [ok |-> TRUE, image |-> UserImage(path)]
    ELSE [ok |-> FALSE, error |-> "ImageLoading"]

\* A user-image step that reads the file whenever the config names one and
\* falls back on the override.
UserImageSourceFileFirst(cfg, ovr) ==
    IF cfg.image_path # None THEN [kind |-> "file", path |-> cfg.image_path]
    ELSE IF ovr # NoImage THEN [kind |-> "override", image |-> ovr]
    ELSE [kind |-> "none"]

\* Where the user photo comes from: the already-decoded override when one is
\* given, else the file config.image_path names, else nothing.
UserImageSource(cfg, ovr) ==
    IF ovr # NoImage THEN [kind |-> "override", image |-> ovr]
    ELSE IF cfg.image_path = None THEN [kind |-> "none"]
    ELSE [kind |-> "file", path |-> cfg.image_path]

\* The adjustments, the resize and the overlay of a decoded photo.
OverlayUserImage(cv, cfg, img, out) ==
    LET drawn == ImageopsOverlay(cv, out, NormalLayout_USER_IMAGE.x, NormalLayout_USER_IMAGE.y)
    IN  [width |-> drawn.width, height |-> drawn.height,
         content |-> Append(cv.content,
            [op |-> "user_image", source |-> img.name, grayscale |-> cfg.grayscale,
             contrast |-> cfg.contrast, brightness |-> cfg.brightness,
             method |-> out.via, width |-> out.width, height |-> out.height,
             x |-> NormalLayout_USER_IMAGE.x, y |-> NormalLayout_USER_IMAGE.y])]

\* place_user_image without the early return
SkipUserImageNever(cfg) == FALSE

\* if config.use_alternate_style { return Ok(()); }
SkipUserImage(cfg) == cfg.use_alternate_style

\* self.place_user_image(&mut canvas, config)?;
PlaceUserImage ==
    /\ pc = "user_image"
    /\ steps' = Append(steps, "user_image")
    /\ LET src == UserImageSource(config, override)
           opn == IF src.kind = "file" THEN OpenUserImage(src.path) ELSE [ok |-> TRUE]
       IN  IF SkipUserImage(config) \/ src.kind = "none"
           THEN /\ pc' = After("user_image")
                /\ UNCHANGED <<canvas, opened, result>>
           ELSE IF ~opn.ok
           THEN /\ opened' = Append(opened, src.path)
                /\ result' = [status |-> "Err", error |-> opn.error]
                /\ pc' = "returned"
                /\ UNCHANGED canvas
           ELSE LET img == IF src.kind = "file" THEN opn.image ELSE src.image
                IN  /\ opened' = IF src.kind = "file" THEN Append(opened, src.path) ELSE opened
                    /\ \E out \in ResizeOutcomes(
                              process_user_image(img, config.resize_method,
                                                 NormalLayout_USER_IMAGE)) :
                          IF out = Panicked
                          THEN /\ result' = [status |-> "panic"]
                               /\ pc' = "returned"
                               /\ UNCHANGED canvas
                          ELSE /\ canvas' = OverlayUserImage(canvas, config, img, out)
                               /\ pc' = After("user_image")
                               /\ UNCHANGED result
    /\ UNCHANGED <<disk, assets, load_result, config, override, masks>>
    /\ UNCHANGED <<resizeVars, textureVars, burnVars, textVars, appVars, twoVars>>

\* self.place_hazards(&mut canvas, config, assets);
place_hazards(cv, cfg, a) ==
    IF cfg.selected_hazard = None THEN cv
    ELSE LET icon == get_hazard_icon(a, cfg.class_type, cfg.selected_hazard)
             rect == IF cfg.use_alternate_style THEN AlternateLayout_HAZARD_ICON
                                                ELSE NormalLayout_HAZARD_ICON
             resized_icon == ImageopsResize(icon, rect.width, rect.height)
             drawn == ImageopsOverlay(cv, resized_icon, rect.x, rect.y)
         IN  [width |-> drawn.width, height |-> drawn.height,
              content |-> Append(cv.content,
                 [op |-> "hazard", icon |-> icon.name, width |-> resized_icon.width,
                  height |-> resized_icon.height, x |-> rect.x, y |-> rect.y])]

PlaceHazards ==
    /\ pc = "hazards"
    /\ canvas' = place_hazards(canvas, config, assets)
    /\ steps' = Append(steps, "hazards")
    /\ pc' = After("hazards")
    /\ UNCHANGED <<disk, assets, load_result, config, override, opened, masks, result>>
    /\ UNCHANGED <<resizeVars, textureVars, burnVars, textVars, appVars, twoVars>>

\* if config.apply_texture { self.apply_texture(&mut canvas, texture, opacity) }
ApplyTextureStep ==
    /\ pc = "texture"
    /\ IF config.apply_texture
       THEN /\ canvas' = Draw(canvas, [op |-> "texture", texture |-> get_texture(assets).name,
                                       opacity |-> config.texture_opacity])
            /\ steps' = Append(steps, "texture")
       ELSE UNCHANGED <<canvas, steps>>
    /\ pc' = After("texture")
    /\ UNCHANGED <<disk, assets, load_result, config, override, opened, masks, result>>
    /\ UNCHANGED <<resizeVars, textureVars, burnVars, textVars, appVars, twoVars>>

\* The burn overlay with a mask of the working size instead of the canvas' size
BurnStepLabelSized ==
    /\ pc = "burn"
    /\ IF config.apply_burn
       THEN LET mask == [width |-> LABEL_SIZE, height |-> LABEL_SIZE, from |-> config]
            IN  /\ masks' = Append(masks, mask)
                /\ canvas' = Draw(canvas, [op |-> "burn", width |-> mask.width,
                                           height |-> mask.height])
                /\ steps' = Append(steps, "burn")
       ELSE UNCHANGED <<canvas, steps, masks>>
    /\ pc' = After("burn")
    /\ UNCHANGED <<disk, assets, load_result, config, override, opened, result>>
    /\ UNCHANGED <<resizeVars, textureVars, burnVars, textVars, appVars, twoVars>>

\* The burn overlay: when enabled, a mask of the canvas' size is generated from
\* the config and applied to the canvas.
BurnStep ==
    /\ pc = "burn"
    /\ IF config.apply_burn
       THEN LET mask == [width |-> canvas.width, height |-> canvas.height,
                         from |-> config]
            IN  /\ masks' = Append(masks, mask)
                /\ canvas' = Draw(canvas, [op |-> "burn", width |-> mask.width,
                                           height |-> mask.height])
                /\ steps' = Append(steps, "burn")
       ELSE UNCHANGED <<canvas, steps, masks>>
    /\ pc' = After("burn")
    /\ UNCHANGED <<disk, assets, load_result, config, override, opened, result>>
    /\ UNCHANGED <<resizeVars, textureVars, burnVars, textVars, appVars, twoVars>>

\* if config.output_resolution != LABEL_SIZE { canvas = imageops::resize(..) }
\* Ok(canvas)
ResizeOutput ==
    /\ pc = "resize"
    /\ IF config.output_resolution # LABEL_SIZE
       THEN LET r == ImageopsResize(canvas, config.output_resolution,
                                    config.output_resolution)
            IN  /\ canvas' = [width |-> r.width, height |-> r.height,
                              content |-> Append(canvas.content, [op |-> "resize"])]
                /\ steps' = Append(steps, "resize")
       ELSE UNCHANGED <<canvas, steps>>
    /\ result' = [status |-> "Ok", image |-> canvas']
    /\ pc' = After("resize")
    /\ UNCHANGED <<disk, assets, load_result, config, override, opened, masks>>
    /\ UNCHANGED <<resizeVars, textureVars, burnVars, textVars, appVars, twoVars>>

-----------------------------------------------------------------------------
(* core/label_composer.rs: apply_texture on pixels. An image is its size    *)
(* and its pixels, px[<<x, y>>] = <<r, g, b, a>>.                            *)

Coords(width, height) == (0 .. width - 1) \X (0 .. height - 1)

\* The pixel values of the model's canvases and textures.
Palette == {<<0, 0, 0, 255>>, <<200, 100, 255, 128>>, <<255, 1, 77, 0>>}

\* Image sizes: one row of up to MaxTexW pixels, and one column of two.
MaxTexW == 2
TexDims == {<<w, 1>> : w \in 1 .. MaxTexW} \cup {<<1, 2>>}
PixelImages ==
    UNION {{[width |-> d[1], height |-> d[2], px |-> f] :
                f \in [Coords(d[1], d[2]) -> Palette]} : d \in TexDims}

\* texture.get_pixel_checked(x, y)
get_pixel_checked(img, x, y) ==
    IF x < img.width /\ y < img.height
    THEN [some |-> TRUE, pixel |-> img.px[<<x, y>>]]
    ELSE [some |-> FALSE]

\* (opacity * 255.0) as u8 with the opacity taken as a percentage
alpha_percent(opacity) ==
    Min(F32ToU32(F32Mul(F32Ratio(opacity, 1000), F32FromU32(100))), 255)

\* let alpha = (opacity * 255.0) as u8; the cast saturates at 255.
alpha(opacity) ==
    Min(F32ToU32(F32Mul(F32Ratio(opacity, 1000), F32FromU32(255))), 255)

\* the blend with a shift by eight bits in place of the division by 255
blend_shift(c, t, a) ==
    (((c * (255 - a) + t * a) % 65536) \div 256) % 256

\* ((c as u16 * (255 - alpha) as u16 + t as u16 * alpha as u16) / 255) as u8
blend(c, t, a) ==
    (((c * (255 - a) + t * a) % 65536) \div 255) % 256

\* apply_texture blending the alpha channel with the other three
apply_texture_all_channels(cv, texture, opacity) ==
    [cv EXCEPT !.px =
        [p \in DOMAIN cv.px |->
            LET tex_pixel == get_pixel_checked(texture, p[1], p[2])
                pixel     == cv.px[p]
            IN  IF tex_pixel.some
                THEN [ch \in 1 .. 4 |->
                        blend(pixel[ch], tex_pixel.pixel[ch], alpha(opacity))]
                ELSE pixel]]

apply_texture(cv, texture, opacity) ==
    [cv EXCEPT !.px =
        [p \in DOMAIN cv.px |->
            LET tex_pixel == get_pixel_checked(texture, p[1], p[2])
                pixel     == cv.px[p]
            IN  IF tex_pixel.some
                THEN <<blend(pixel[1], tex_pixel.pixel[1], alpha(opacity)),
                       blend(pixel[2], tex_pixel.pixel[2], alpha(opacity)),
                       blend(pixel[3], tex_pixel.pixel[3], alpha(opacity)),
                       pixel[4]>>
                ELSE pixel]]

\* compose's texture step: if config.apply_texture { self.apply_texture(..) }
TextureStep(cv, texture, enabled, opacity) ==
    IF enabled THEN apply_texture(cv, texture, opacity) ELSE cv

\* Texture opacities, in thousandths; the slider ends at 1.0.
Opacities == {0, 300, 500, 1000, 1200}

InitTextureInputs ==
    /\ tex_canvas \in PixelImages
    /\ tex_texture \in PixelImages
    /\ tex_opacity \in Opacities
    /\ tex_out = NoImage

ApplyTexture ==
    /\ tex_canvas # NoImage
    /\ tex_out = NoImage
    /\ tex_out' = TextureStep(tex_canvas, tex_texture, TRUE, tex_opacity)
    /\ UNCHANGED <<tex_canvas, tex_texture, tex_opacity>>
    /\ UNCHANGED <<resizeVars, composeVars, burnVars, textVars, appVars, twoVars>>

-----------------------------------------------------------------------------
(* core/noise_generator.rs: generate_burn_mask. An f32 of the per-pixel      *)
(* response curve is a fixed-point number of FixOne steps per unit, or one   *)
(* of the two special values the curve can produce, infinity and NaN. The    *)
(* burn parameters are held in thousandths.                                  *)

FixOne == 1020

Fin(v) == [k |-> "fin", v |-> v]
FInf == [k |-> "inf"]
FNaN == [k |-> "nan"]

ToFix(thousandths) == (thousandths * FixOne) \div 1000
FixMul(a, b) == (a * b) \div FixOne

RECURSIVE Gcd(_, _)
Gcd(a, b) == IF b = 0 THEN a ELSE Gcd(b, a % b)

\* The exponent n / d in lowest terms, d > 0.
Ratio(n, d) ==
    LET g == Gcd(IF n < 0 THEN 0 - n ELSE n, d)
    IN  [n |-> n \div g, d |-> d \div g]

RECURSIVE IPow(_, _)
IPow(x, n) == IF n = 0 THEN FixOne ELSE FixMul(x, IPow(x, n - 1))

\* The largest y in lo .. hi - 1 with y^d <= x.
RECURSIVE RootSearch(_, _, _, _)
RootSearch(x, d, lo, hi) ==
    IF hi - lo <= 1 THEN lo
    ELSE LET mid == (lo + hi) \div 2
         IN  IF IPow(mid, d) <= x THEN RootSearch(x, d, mid, hi)
                                  ELSE RootSearch(x, d, lo, mid)

Root(x, d) == IF d = 1 THEN x ELSE RootSearch(x, d, 0, FixOne + 1)

\* x^(n/d) for 0 <= x <= 1 and n/d > 0
PowPos(x, p) == IPow(Root(x, p.d), p.n)

\* f32::powf on a value of [0, 1], infinity or NaN
powf(val, p) ==
    CASE p.n = 0        -> Fin(FixOne)
      [] val.k = "nan"  -> FNaN
      [] val.k = "inf"  -> IF p.n > 0 THEN FInf ELSE Fin(0)
      [] val.v = 0      -> IF p.n > 0 THEN Fin(0) ELSE FInf
      [] p.n > 0        -> Fin(PowPos(val.v, p))
      [] OTHER          ->
            LET y == PowPos(val.v, [n |-> 0 - p.n, d |-> p.d])
            IN  IF y = 0 THEN FInf ELSE Fin((FixOne * FixOne) \div y)

\* val += jitter
add(val, jitter) == IF val.k = "fin" THEN Fin(val.v + jitter) ELSE val

\* val.clamp(0.0, 1.0): NaN stays NaN
clamp(val) ==
    CASE val.k = "nan" -> FNaN
      [] val.k = "inf" -> Fin(FixOne)
      [] OTHER         -> Fin(Min(Max(val.v, 0), FixOne))

\* val *= config.burn_amount, burn_amount >= 0: infinity times zero is NaN
scale(val, amount) ==
    CASE val.k = "nan" -> FNaN
      [] val.k = "inf" -> IF amount = 0 THEN FNaN ELSE FInf
      [] OTHER         -> Fin(FixMul(val.v, ToFix(amount)))

\* (val * 255.0) as u8: the cast saturates and takes NaN to 0
pack(val) ==
    CASE val.k = "nan" -> 0
      [] val.k = "inf" -> 255
      [] OTHER         -> Min(Max((val.v * 255) \div FixOne, 0), 255)

\* let softness_exponent = 1.0 + config.burn_edge_softness * 4.0;
softness_exponent(cfg) == Ratio(1000 + cfg.burn_edge_softness * 4, 1000)

\* let char_power = 1.0 - config.burn_char * 0.9;
char_power(cfg) == Ratio(10000 - cfg.burn_char * 9, 10000)

\* the jitter without the scaling by burn_irregularity
jitter_unscaled(rand, cfg) == rand - FixOne \div 2

\* (rand::random::<f32>() - 0.5) * config.burn_irregularity
jitter(rand, cfg) == ((rand - FixOne \div 2) * ToFix(cfg.burn_irregularity)) \div FixOne

\* the response curve with the jitter added after the scaling by burn_amount
burn_value_jitter_last(level, rand, cfg) ==
    LET val0 == Fin((level * FixOne) \div 255)
        val1 == powf(val0, softness_exponent(cfg))
        val2 == clamp(val1)
        val3 == powf(val2, char_power(cfg))
        val4 == scale(val3, cfg.burn_amount)
        val5 == add(val4, jitter(rand, cfg))
    IN  pack(val5)

\* the response curve with the two powers exchanged
burn_value_char_first(level, rand, cfg) ==
    LET val0 == Fin((level * FixOne) \div 255)
        val1 == powf(val0, char_power(cfg))
        val2 == add(val1, jitter(rand, cfg))
        val3 == clamp(val2)
        val4 == powf(val3, softness_exponent(cfg))
        val5 == scale(val4, cfg.burn_amount)
    IN  pack(val5)

\* The body of the pixel loop: the mask value for a noise level.
burn_value(level, rand, cfg) ==
    LET val0 == Fin((level * FixOne) \div 255)
        val1 == powf(val0, softness_exponent(cfg))
        val2 == add(val1, jitter(rand, cfg))
        val3 == clamp(val2)
        val4 == powf(val3, char_power(cfg))
        val5 == scale(val4, cfg.burn_amount)
    IN  pack(val5)

\* blend_images(base, overlay, alpha) on one pixel
blend_images(b, o, a) == Min(Max((b * (1000 - a) + o * a) \div 1000, 0), 255)

BurnType == {"Perlin", "Patches"}

\* The noise image the match on burn_type yields: for Perlin the base and
\* the detail layer blended, for Patches the Worley layer.
burn_layer(cfg, noise) ==
    [p \in DOMAIN noise.base |->
        IF cfg.burn_type = "Perlin"
        THEN blend_images(noise.base[p], noise.detail[p], cfg.burn_detail_blend)
        ELSE noise.base[p]]

\* The scales (frequencies) of the layers, in thousandths: f64 products of
\* the config's f32 fields.
F64Mul(a, b) == (a * b) \div 1000
base_scale(cfg) == F64Mul(cfg.burn_scale, cfg.burn_scale_multiplier)
detail_scale(cfg) ==
    F64Mul(F64Mul(base_scale(cfg), cfg.burn_detail), cfg.burn_scale_multiplier)

\* A u32 as its two 16-bit halves, value hi * 65536 + lo.
U16_MAX == 65535
U32(hi, lo) == [hi |-> hi, lo |-> lo]
U32_MAX == U32(U16_MAX, U16_MAX)

\* `config.burn_seed + 1` on u32: past u32::MAX the addition panics in a
\* build with overflow checks and wraps to 0 in one without.
AddOverflowPanic == [fn |-> "panic: attempt to add with overflow"]
seed_plus_one(seed) ==
    IF seed.lo < U16_MAX
    THEN {[fn |-> "Perlin::new", seed |-> U32(seed.hi, seed.lo + 1)]}
    ELSE IF seed.hi < U16_MAX
    THEN {[fn |-> "Perlin::new", seed |-> U32(seed.hi + 1, 0)]}
    ELSE {AddOverflowPanic, [fn |-> "Perlin::new", seed |-> U32(0, 0)]}

\* The noise functions generate_burn_mask builds, as far as it gets.
noise_seeds(cfg) ==
    IF cfg.burn_type = "Perlin"
    THEN {<<[fn |-> "Perlin::new", seed |-> cfg.burn_seed]>>}
    ELSE {<<[fn |-> "Worley::new", seed |-> cfg.burn_seed], perlin>> :
              perlin \in seed_plus_one(cfg.burn_seed)}

\* The layers generate_burn_mask asks the noise functions for.
layer_calls(cfg) ==
    IF cfg.burn_type = "Perlin"
    THEN <<[fn |-> "generate_perlin_layer", scale |-> base_scale(cfg), layer |-> 0],
           [fn |-> "generate_perlin_layer", scale |-> detail_scale(cfg), layer |-> 1]>>
    ELSE <<[fn |-> "generate_worley_layer", scale |-> cfg.burn_scale, layer |-> 0]>>

generate_burn_mask(cfg, noise, rand) ==
    LET burn == burn_layer(cfg, noise)
    IN  [width |-> noise.width, height |-> noise.height,
         px |-> [p \in DOMAIN burn |-> burn_value(burn[p], rand[p], cfg)]]

\* The burn applied to the canvas: each visible channel is pulled toward
\* black in proportion to the mask value at the pixel.
apply_burn_mask(cv, mask) ==
    [cv EXCEPT !.px =
        [p \in DOMAIN cv.px |->
            LET pixel == cv.px[p]
                keep  == 255 - mask.px[p]
            IN  <<(pixel[1] * keep) \div 255, (pixel[2] * keep) \div 255,
                  (pixel[3] * keep) \div 255, pixel[4]>>]]

\* Burn parameters, in thousandths. The controls keep them within 0 .. 1000;
\* a char value of 2000 stands for a config built with a value beyond them.
BurnConfigs ==
    [burn_type          : BurnType,
     burn_amount        : {0, 350, 1000},
     burn_edge_softness : {0, 500},
     burn_irregularity  : {0, 1000},
     burn_char          : {0, 1000, 2000},
     burn_detail_blend  : {300},
     burn_scale         : {3000},
     burn_detail        : {500},
     burn_scale_multiplier : {1000, 2000},
     burn_seed          : {U32(0, U16_MAX), U32_MAX}]

\* The levels the noise crate's layers take, the values rand::random takes.
BaseLevels == {0, 128, 255}
DetailLevels == {0, 255}
Rands == {0, FixOne \div 2, FixOne - 1}

\* Mask sizes: one row of up to MaxMaskW pixels.
MaxMaskW == 1
BurnNoises ==
    UNION {[width : {w}, height : {1},
            base : [Coords(w, 1) -> BaseLevels],
            detail : [Coords(w, 1) -> DetailLevels]] : w \in 1 .. MaxMaskW}

\* The canvas the mask is made for.
BurnCanvas(width, height) ==
    [width |-> width, height |-> height,
     px |-> [p \in Coords(width, height) |-> <<200, 100 + p[1], 50, 255>>]]

InitBurnInputs ==
    /\ burn_cfg \in BurnConfigs
    /\ burn_noise \in BurnNoises
    /\ burn_canvas = BurnCanvas(burn_noise.width, burn_noise.height)
    /\ burn_mask = NoImage
    /\ burn_mask2 = NoImage
    /\ burn_layers = <<>>
    /\ burn_seeds = <<>>
    /\ burn_out = NoImage

\* generate_burn_mask(config, canvas.width(), canvas.height())
GenerateBurnMask ==
    /\ burn_cfg # NoImage
    /\ burn_mask = NoImage
    /\ burn_seeds = <<>>
    /\ \E seeds \in noise_seeds(burn_cfg) :
         /\ burn_seeds' = seeds
         /\ IF \E i \in DOMAIN seeds : seeds[i] = AddOverflowPanic
            THEN UNCHANGED <<burn_mask, burn_layers>>
            ELSE /\ \E rand \in [DOMAIN burn_noise.base -> Rands] :
                      burn_mask' = generate_burn_mask(burn_cfg, burn_noise, rand)
                 /\ burn_layers' = layer_calls(burn_cfg)
    /\ UNCHANGED <<burn_cfg, burn_noise, burn_mask2, burn_canvas, burn_out>>
    /\ UNCHANGED <<resizeVars, composeVars, textureVars, textVars, appVars, twoVars>>

\* A second call with the same config, width and height: the seeded noise is
\* the same, the unseeded random source draws again.
GenerateBurnMaskAgain ==
    /\ burn_mask # NoImage
    /\ burn_mask2 = NoImage
    /\ \E rand \in [DOMAIN burn_noise.base -> Rands] :
         burn_mask2' = generate_burn_mask(burn_cfg, burn_noise, rand)
    /\ UNCHANGED <<burn_cfg, burn_noise, burn_mask, burn_layers, burn_seeds, burn_canvas,
                   burn_out>>
    /\ UNCHANGED <<resizeVars, composeVars, textureVars, textVars, appVars, twoVars>>

ApplyBurnMask ==
    /\ burn_mask # NoImage
    /\ burn_out = NoImage
    /\ burn_out' = apply_burn_mask(burn_canvas, burn_mask)
    /\ UNCHANGED <<burn_cfg, burn_noise, burn_mask, burn_mask2, burn_layers, burn_seeds,
                   burn_canvas>>
    /\ UNCHANGED <<resizeVars, composeVars, textureVars, textVars, appVars, twoVars>>

-----------------------------------------------------------------------------
(* core/text_renderer.rs. A text is a sequence of characters; "\\n" is the  *)
(* two-character marker a text field holds for a line break. The canvas is  *)
(* the sequence of draw_text_mut calls made on it.                          *)

Alignment == {"Left", "Center", "Right", "CenterLeft"}

EscapedNewline == "\\n"
Chars == {"A", " ", EscapedNewline}

\* Texts of up to MaxTextLen characters.
MaxTextLen == 3
Texts == UNION {[1 .. n -> Chars] : n \in 0 .. MaxTextLen}

\* text.replace("\\n", "\n").split('\n').collect()
RECURSIVE SplitLines(_)
SplitLines(text) ==
    IF text = <<>> THEN << <<>> >>
    ELSE LET rest == SplitLines(Tail(text))
         IN  IF Head(text) = EscapedNewline
             THEN << <<>> >> \o rest
             ELSE << <<Head(text)>> \o rest[1] >> \o Tail(rest)

\* `line.is_empty()` in place of `line.trim().is_empty()`
IsEmptyLine(line) == line = <<>>

\* line.trim().is_empty()
IsBlank(line) == \A i \in DOMAIN line : line[i] = " "

\* text_size(scale, font, line).0: the advances of the line's characters
GlyphAdvance(c) == IF c = " " THEN 12 ELSE 30
RECURSIVE TextWidth(_)
TextWidth(line) ==
    IF line = <<>> THEN 0 ELSE GlyphAdvance(Head(line)) + TextWidth(Tail(line))

\* `offset.0 as i32`: an f32 in thousandths truncated toward zero
F32ToI32(thousandths) ==
    IF thousandths >= 0 THEN thousandths \div 1000 ELSE 0 - ((0 - thousandths) \div 1000)

\* The x of a line of width text_w in the region.
AlignedX(region, text_w, offset) ==
    (CASE region.alignment = "Left"       -> region.x
       [] region.alignment = "Center"     -> (region.x + region.max_width \div 2) - text_w \div 2
       [] region.alignment = "Right"      -> (region.x + region.max_width) - text_w
       [] region.alignment = "CenterLeft" -> region.x)
    + F32ToI32(offset[1])

\* let line_spacing = (glyph_height as f32 * line_spacing_multiplier) as i32;
LineSpacing(glyph_height, line_spacing_multiplier) ==
    F32ToU32(F32Mul(F32FromU32(glyph_height), F32Ratio(line_spacing_multiplier, 1000)))

TotalBlockHeight(n_lines, line_spacing, glyph_height) ==
    IF n_lines > 1 THEN (n_lines - 1) * line_spacing + glyph_height ELSE glyph_height

\* render_text after its guard: the draw_text_mut calls of the line loop.
RenderLines(a) ==
    LET lines == SplitLines(a.text)
        line_spacing == LineSpacing(a.glyph_height, a.line_spacing_multiplier)
        total_block_height == TotalBlockHeight(Len(lines), line_spacing, a.glyph_height)
        drawn == {i \in DOMAIN lines : ~(IsBlank(lines[i]) /\ Len(lines) > 1)}
        call(i) == [line |-> lines[i],
                    x |-> AlignedX(a.region, TextWidth(lines[i]), a.offset),
                    y |-> (a.region.y - total_block_height \div 2)
                           + (i - 1) * line_spacing + F32ToI32(a.offset[2]),
                    color |-> "fill"]
        RECURSIVE Calls(_)
        Calls(i) == IF i > Len(lines) THEN <<>>
                    ELSE (IF i \in drawn THEN <<call(i)>> ELSE <<>>) \o Calls(i + 1)
    IN  Calls(1)

\* render_text without the guard on the empty text
TextRenderer_render_text_unguarded(a) == RenderLines(a)

\* The draw_text_mut calls of render_text, in order.
TextRenderer_render_text(a) ==
    IF a.text = <<>> THEN <<>> ELSE RenderLines(a)

\* The draw_text_mut calls of render_text_with_stroke: the 24 stroke copies
\* around (x, y), then the fill.
StrokeOffsets == {d \in (-2 .. 2) \X (-2 .. 2) : d # <<0, 0>>}
TextRenderer_render_text_with_stroke(a) ==
    IF a.text = <<>> THEN <<>>
    ELSE LET x == AlignedX(a.region, TextWidth(a.text), a.offset)
             y == (a.region.y - a.glyph_height \div 2) + F32ToI32(a.offset[2])
             RECURSIVE Strokes(_, _)
             Strokes(dx, dy) ==
                 IF dx > 2 THEN <<>>
                 ELSE IF dy > 2 THEN Strokes(dx + 1, -2)
                 ELSE (IF <<dx, dy>> \in StrokeOffsets
                       THEN <<[line |-> a.text, x |-> x + dx, y |-> y + dy,
                               color |-> "stroke"]>>
                       ELSE <<>>) \o Strokes(dx, dy + 1)
         IN  Strokes(-2, -2) \o <<[line |-> a.text, x |-> x, y |-> y, color |-> "fill"]>>

\* The regions render_text is called with: the label's, and the SCP-number
\* region under each alignment.
TextRegions ==
    {CommonLayout_SCP_NUMBER, CommonLayout_OBJECT_CLASS_TEXT,
     AlternateLayout_SCP_NUMBER, AlternateLayout_OBJECT_CLASS_TEXT}
    \cup {[CommonLayout_SCP_NUMBER EXCEPT !.alignment = al] : al \in Alignment}

\* Line spacings in thousandths (the controls allow 0.5 to 3.0); the height
\* text_size measures for "Hg" at the font size.
LineSpacings == {500, 1200, 3000}
GlyphHeights == {49}

TextIdle == txt_args = NoImage /\ txt_call = "none" /\ txt_canvas = <<>>

InitTextInputs ==
    /\ txt_args \in [text : Texts, region : TextRegions, font_size : {60000},
                     offset : {<<2000, -7000>>},
                     line_spacing_multiplier : LineSpacings,
                     glyph_height : GlyphHeights]
    /\ txt_call = "none"
    /\ txt_canvas = <<>>

RenderText ==
    /\ txt_args # NoImage
    /\ txt_call = "none"
    /\ txt_canvas' = txt_canvas \o TextRenderer_render_text(txt_args)
    /\ txt_call' = "render_text"
    /\ UNCHANGED txt_args
    /\ UNCHANGED <<resizeVars, composeVars, textureVars, burnVars, appVars, twoVars>>

RenderTextWithStroke ==
    /\ txt_args # NoImage
    /\ txt_call = "none"
    /\ txt_canvas' = txt_canvas \o TextRenderer_render_text_with_stroke(txt_args)
    /\ txt_call' = "render_text_with_stroke"
    /\ UNCHANGED txt_args
    /\ UNCHANGED <<resizeVars, composeVars, textureVars, burnVars, appVars, twoVars>>

-----------------------------------------------------------------------------
(* The GUI application (app.rs): App::update on the messages that touch the  *)
(* bounded numeric fields of the LabelConfig, and the preview rendering.    *)
(* Values are thousandths, as in the configs above.                         *)

\* What "NaN".parse::<f32>() gives: a value outside every range, equal to
\* nothing (f32 comparison with NaN is false), itself included.
NaN == -999999

F32Eq(a, b) == a # NaN /\ b # NaN /\ a = b
F32Clamp(val, lo, hi) ==
    IF val = NaN THEN NaN ELSE IF val < lo THEN lo ELSE IF val > hi THEN hi ELSE val

\* LabelConfig::default(), with the burn amount the controls show at start.
AppDefaultConfig == DefaultConfig @@ [burn_amount |-> 350]

\* The text of a text field: empty, not a number, or what parse::<f32>() gives.
EmptyText      == [text |-> "empty"]
UnparsableText == [text |-> "abc"]
NumberText(v)  == [text |-> "number", val |-> v]
IsNumber(s)    == s.text = "number"

\* The values a slider over lo..=hi emits, and the texts typed in a field
\* whose accepted range is lo..=hi.
SliderStops(lo, hi) == {lo, hi}
TypedTexts(lo, hi) ==
    {EmptyText, UnparsableText} \cup
    {NumberText(v) : v \in {lo - 1000, hi, hi + 1000, NaN}}

\* What serde_json::from_str gives for the files the user may pick: a saved
\* default config, and a hand-edited one (no field of it is validated).
EditedConfig ==
    [AppDefaultConfig EXCEPT !.texture_opacity = 1200, !.contrast = 3000,
                             !.brightness = -2000,
                             !.scp_number_font_size = 100000,
                             !.object_class_font_size = 8000,
                             !.burn_amount = 2000]
LoadableConfigs == {AppDefaultConfig, EditedConfig}
LoadResults == {[ok |-> TRUE, config |-> c] : c \in LoadableConfigs}
                   \cup {[ok |-> FALSE]}

\* The number of messages the user's actions send in one run of the
\* application (the messages the handlers queue come on top of these).
MaxEdits == 2

AppIdle ==
    /\ app_config = NoImage /\ app_assets = "none" /\ app_regen = 0
    /\ app_notices = 0 /\ app_renders = {} /\ app_spawned = 0
    /\ app_preview = NoImage /\ app_newest_shown = 0
    /\ app_modal_error = NoImage /\ app_notification = FALSE /\ app_edits = 0
    /\ app_gif_frames = NoImage /\ app_gif_frame_delays = <<>>
    /\ app_frame_index = 0 /\ app_gif_playing = TRUE /\ app_validation = NoImage
    /\ app_panicked = FALSE /\ app_loaded = FALSE

\* App::new: the default config, and AssetManager::load_all running.
InitApp ==
    /\ app_config = AppDefaultConfig /\ app_assets = "loading" /\ app_regen = 0
    /\ app_notices = 0 /\ app_renders = {} /\ app_spawned = 0
    /\ app_preview = NoImage /\ app_newest_shown = 0
    /\ app_modal_error = NoImage /\ app_notification = FALSE /\ app_edits = 0
    /\ app_gif_frames = NoImage /\ app_gif_frame_delays = <<>>
    /\ app_frame_index = 0 /\ app_gif_playing = TRUE /\ app_validation = NoImage
    /\ app_panicked = FALSE /\ app_loaded = FALSE

\* A message that comes from a widget or a file dialog.
UserMessage == ~app_panicked /\ app_edits < MaxEdits /\ app_edits' = app_edits + 1

\* Command::perform(async {}, |_| Message::RegeneratePreview)
QueueRegeneratePreview ==
    /\ app_regen' = app_regen + 1
    /\ UNCHANGED <<app_assets, app_notices, app_renders, app_spawned, app_preview,
                   app_newest_shown, app_modal_error, app_notification>>

\* Command::perform(async {}, move |_| Message::ShowNotification(..))
QueueShowNotification ==
    /\ app_notices' = app_notices + 1
    /\ UNCHANGED <<app_assets, app_regen, app_renders, app_spawned, app_preview,
                   app_newest_shown, app_modal_error, app_notification>>

\* Command::none()
CommandNone ==
    UNCHANGED <<app_assets, app_regen, app_notices, app_renders, app_spawned,
                app_preview, app_newest_shown, app_modal_error, app_notification>>

OtherVars == <<resizeVars, composeVars, textureVars, burnVars, textVars, twoVars>>

AssetsLoaded ==
    /\ ~app_panicked
    /\ UNCHANGED app_edits
    /\ app_assets = "loading"
    /\ \E ok \in BOOLEAN :
          IF ok
          THEN /\ app_assets' = "ready"
               /\ app_regen' = app_regen + 1
               /\ UNCHANGED app_modal_error
          ELSE /\ app_assets' = "failed"
               /\ app_modal_error' = [text |-> "Failed to load assets"]
               /\ UNCHANGED app_regen
    /\ UNCHANGED <<app_config, app_notices, app_renders, app_spawned, app_preview,
                   app_newest_shown, app_notification>>
    /\ UNCHANGED <<gifVars, OtherVars>>

\* A handler that stores the slider's value as it comes.
StoreSlider(field, lo, hi) ==
    /\ \E value \in SliderStops(lo, hi) :
          app_config' = [app_config EXCEPT ![field] = value]
    /\ QueueRegeneratePreview

\* No widget sends TextureOpacityChanged (the opacity slider sends
\* OpacityTextChanged); its values are taken from that slider's range.
TextureOpacityChanged ==
    /\ UserMessage
    /\ StoreSlider("texture_opacity", 0, 1000)
    /\ UNCHANGED <<gifVars, OtherVars>>

BrightnessChanged ==
    /\ UserMessage
    /\ StoreSlider("brightness", -1000, 1000)
    /\ UNCHANGED <<gifVars, OtherVars>>

ContrastChanged ==
    /\ UserMessage
    /\ StoreSlider("contrast", 0, 2000)
    /\ UNCHANGED <<gifVars, OtherVars>>

ScpNumberFontSizeChanged ==
    /\ UserMessage
    /\ StoreSlider("scp_number_font_size", 24000, 72000)
    /\ UNCHANGED <<gifVars, OtherVars>>

ObjectClassFontSizeChanged ==
    /\ UserMessage
    /\ StoreSlider("object_class_font_size", 24000, 72000)
    /\ UNCHANGED <<gifVars, OtherVars>>

\* A handler of a text field: a number outside lo..=hi is refused with a
\* notification, a number inside is stored, an empty text stores the default.
StoreTextValue(field, lo, hi, default, value) ==
    IF IsNumber(value)
    THEN LET clamped_val == F32Clamp(value.val, lo, hi) IN
         IF ~F32Eq(value.val, clamped_val)
         THEN /\ QueueShowNotification
              /\ UNCHANGED app_config
         ELSE /\ app_config' = [app_config EXCEPT ![field] = clamped_val]
              /\ QueueRegeneratePreview
    ELSE IF value = EmptyText
    THEN /\ app_config' = [app_config EXCEPT ![field] = default]
         /\ QueueRegeneratePreview
    ELSE /\ UNCHANGED app_config
         /\ CommandNone

StoreText(field, lo, hi, default) ==
    \E value \in TypedTexts(lo, hi) : StoreTextValue(field, lo, hi, default, value)

ScpNumberFontSizeTextChanged ==
    /\ UserMessage
    /\ StoreText("scp_number_font_size", 24000, 72000, 60000)
    /\ UNCHANGED <<gifVars, OtherVars>>

ObjectClassFontSizeTextChanged ==
    /\ UserMessage
    /\ StoreText("object_class_font_size", 24000, 72000, 60000)
    /\ UNCHANGED <<gifVars, OtherVars>>

\* Sent by the opacity text field, and by the opacity slider with the
\* value's text.
OpacityTextChanged ==
    /\ UserMessage
    /\ StoreText("texture_opacity", 0, 1000, 300)
    /\ UNCHANGED <<gifVars, OtherVars>>

BrightnessTextChanged ==
    /\ UserMessage
    /\ StoreText("brightness", -1000, 1000, 0)
    /\ UNCHANGED <<gifVars, OtherVars>>

ContrastTextChanged ==
    /\ UserMessage
    /\ StoreText("contrast", 0, 2000, 1000)
    /\ UNCHANGED <<gifVars, OtherVars>>

\* The burn amount's slider and text field both send the value as a text.
BurnAmountChanged ==
    /\ UserMessage
    /\ \E s \in TypedTexts(0, 1000) \cup {NumberText(v) : v \in SliderStops(0, 1000)} :
          IF IsNumber(s)
          THEN app_config' = [app_config EXCEPT !.burn_amount = F32Clamp(s.val, 0, 1000)]
          ELSE UNCHANGED app_config
    /\ QueueRegeneratePreview
    /\ UNCHANGED <<gifVars, OtherVars>>

ResetText ==
    /\ UserMessage
    /\ app_config' = [app_config EXCEPT !.scp_text_offset = <<2000, -7000>>,
                                        !.class_text_offset = <<2000, -7000>>,
                                        !.scp_number_font_size = 60000,
                                        !.object_class_font_size = 60000]
    /\ QueueRegeneratePreview
    /\ UNCHANGED <<gifVars, OtherVars>>

ConfigLoaded ==
    /\ UserMessage
    /\ \E loaded \in LoadResults :
          IF loaded.ok
          THEN /\ app_config' = loaded.config
               /\ app_loaded' = TRUE
               /\ QueueRegeneratePreview
          ELSE /\ UNCHANGED <<app_config, app_loaded>>
               /\ QueueShowNotification
    /\ UNCHANGED <<gifFields, app_panicked>>
    /\ UNCHANGED OtherVars

ProjectLoaded ==
    /\ UserMessage
    /\ \E loaded \in LoadResults :
          IF loaded.ok
          THEN /\ app_config' = loaded.config
               /\ app_loaded' = TRUE
               /\ QueueRegeneratePreview
          ELSE /\ UNCHANGED <<app_config, app_loaded>>
               /\ app_modal_error' = [text |-> "Failed to load project"]
               /\ UNCHANGED <<app_assets, app_regen, app_notices, app_renders,
                              app_spawned, app_preview, app_newest_shown,
                              app_notification>>
    /\ UNCHANGED <<gifFields, app_panicked>>
    /\ UNCHANGED OtherVars

\* The files the image dialog may return: GIFs that decode to two, one and
\* no frames, a GIF and an image that do not decode, an image that does.
GifFiles == {"anim.gif", "short.gif", "empty.gif", "broken.gif"}
PickedFiles == GifFiles \cup {ReadablePath, "broken.png"}
ImageSelectedResults ==
    {[ok |-> FALSE, error |-> "No image selected"]}
        \cup {[ok |-> TRUE, path |-> path] : path \in PickedFiles}

\* The frames and delays the gif decoder reads from a file.
DecodedFrames(path) ==
    LET n == CASE path = "anim.gif" -> 2 [] path = "short.gif" -> 1 [] OTHER -> 0
    IN  [i \in 1 .. n |-> [width |-> 320, height |-> 200, name |-> path, frame |-> i]]
DecodedDelays(path) ==
    [i \in 1 .. Len(DecodedFrames(path)) |-> 100 * i]

\* The GIF fields of App that decode_gif writes.
GifState ==
    [gif_frames |-> app_gif_frames, gif_frame_delays |-> app_gif_frame_delays,
     current_frame_index |-> app_frame_index]

\* decode_gif storing the frames read so far when a frame does not decode
decode_gif_storing_early(self, path) ==
    IF path = "broken.gif"
    THEN [ok |-> FALSE, error |-> "ImageProcessing",
          self |-> [self EXCEPT !.gif_frames = [frames |-> <<>>],
                                !.gif_frame_delays = <<>>]]
    ELSE [ok |-> TRUE,
          self |-> [gif_frames |-> [frames |-> DecodedFrames(path)],
                    gif_frame_delays |-> DecodedDelays(path),
                    current_frame_index |-> 0]]

\* decode_gif: the frames are collected in locals and stored in self only
\* after the last one was read.
decode_gif(self, path) ==
    IF path = "broken.gif"
    THEN [ok |-> FALSE, error |-> "ImageProcessing", self |-> self]
    ELSE [ok |-> TRUE,
          self |-> [gif_frames |-> [frames |-> DecodedFrames(path)],
                    gif_frame_delays |-> DecodedDelays(path),
                    current_frame_index |-> 0]]

\* load_image_robustly(&path)
load_image_robustly(path) ==
    IF path = ReadablePath THEN [ok |-> TRUE, image |-> UserImage(path)]
                           ELSE [ok |-> FALSE, error |-> "ImageLoading"]

\* ImageSelected(result) for one result of the dialog.
ImageSelectedResult(picked) ==
    IF ~picked.ok
    THEN /\ app_modal_error' = [text |-> picked.error]
         /\ UNCHANGED <<app_config, gifFields, app_loaded, app_regen>>
    ELSE IF picked.path \in GifFiles
    THEN LET decoded == decode_gif(GifState, picked.path) IN
         /\ app_gif_frames' = decoded.self.gif_frames
         /\ app_gif_frame_delays' = decoded.self.gif_frame_delays
         /\ app_frame_index' = decoded.self.current_frame_index
         /\ UNCHANGED app_gif_playing
         /\ IF decoded.ok
            THEN /\ app_config' = [app_config EXCEPT !.image_path = picked.path]
                 /\ app_validation' = NoImage
                 /\ app_loaded' = FALSE
                 /\ app_regen' = app_regen + 1
                 /\ UNCHANGED app_modal_error
            ELSE /\ app_modal_error' = [text |-> "Failed to load GIF"]
                 /\ UNCHANGED <<app_config, app_validation, app_loaded, app_regen>>
    ELSE LET loaded == load_image_robustly(picked.path) IN
         IF loaded.ok
         THEN /\ app_gif_frames' = NoImage
              /\ app_gif_frame_delays' = <<>>
              /\ app_frame_index' = 0
              /\ app_validation' = [image |-> loaded.image]
              /\ app_config' = [app_config EXCEPT !.image_path = picked.path]
              /\ app_loaded' = FALSE
              /\ app_regen' = app_regen + 1
              /\ UNCHANGED <<app_gif_playing, app_modal_error>>
         ELSE /\ app_modal_error' = [text |-> "Could not open image"]
              /\ UNCHANGED <<app_config, gifFields, app_loaded, app_regen>>

ImageSelected ==
    /\ UserMessage
    /\ \E picked \in ImageSelectedResults : ImageSelectedResult(picked)
    /\ UNCHANGED <<app_assets, app_notices, app_renders, app_spawned, app_preview,
                   app_newest_shown, app_notification, app_panicked>>
    /\ UNCHANGED OtherVars

\* Sent by the timer subscription while a GIF is loaded and playing.
AdvanceFrame ==
    /\ UserMessage
    /\ IF app_gif_playing /\ app_gif_frames # NoImage
       THEN IF Len(app_gif_frames.frames) = 0
            THEN /\ app_panicked' = TRUE
                 /\ UNCHANGED <<app_frame_index, app_regen>>
            ELSE /\ app_frame_index' =
                        (app_frame_index + 1) % Len(app_gif_frames.frames)
                 /\ app_regen' = app_regen + 1
                 /\ UNCHANGED app_panicked
       ELSE UNCHANGED <<app_frame_index, app_regen, app_panicked>>
    /\ UNCHANGED <<app_config, app_assets, app_notices, app_renders, app_spawned,
                   app_preview, app_newest_shown, app_modal_error, app_notification>>
    /\ UNCHANGED <<app_gif_frames, app_gif_frame_delays, app_gif_playing,
                   app_validation, app_loaded>>
    /\ UNCHANGED OtherVars

ToggleGifPlayback ==
    /\ UserMessage
    /\ app_gif_playing' = ~app_gif_playing
    /\ UNCHANGED app_config
    /\ CommandNone
    /\ UNCHANGED <<app_gif_frames, app_gif_frame_delays, app_frame_index,
                   app_validation, app_panicked, app_loaded>>
    /\ UNCHANGED OtherVars

\* The handler clones the config, takes the current GIF frame as the image
\* override and spawns the task that calls compose on them; app_spawned
\* numbers the tasks in the order they are spawned. With an empty frame list
\* the remainder by frames.len() panics.
RegeneratePreview ==
    /\ ~app_panicked
    /\ UNCHANGED app_edits
    /\ app_regen > 0
    /\ app_regen' = app_regen - 1
    /\ IF app_assets # "ready"
       THEN UNCHANGED <<app_renders, app_spawned, app_panicked>>
       ELSE IF app_gif_frames # NoImage /\ Len(app_gif_frames.frames) = 0
       THEN /\ app_panicked' = TRUE
            /\ UNCHANGED <<app_renders, app_spawned>>
       ELSE LET image_override ==
                    IF app_gif_frames = NoImage THEN NoImage
                    ELSE app_gif_frames.frames[
                             (app_frame_index % Len(app_gif_frames.frames)) + 1]
            IN  /\ app_renders' = app_renders \cup
                       {[seq |-> app_spawned + 1, config |-> app_config,
                         override |-> image_override]}
                /\ app_spawned' = app_spawned + 1
                /\ UNCHANGED app_panicked
    /\ UNCHANGED <<app_config, app_assets, app_notices, app_preview,
                   app_newest_shown, app_modal_error, app_notification>>
    /\ UNCHANGED <<gifFields, app_loaded>>
    /\ UNCHANGED OtherVars

\* A render task has finished, in whatever order the executor finished them;
\* its result replaces the preview.  app_newest_shown remembers the latest
\* task whose result has been shown.
PreviewGenerated ==
    /\ ~app_panicked
    /\ UNCHANGED app_edits
    /\ \E task \in app_renders :
          /\ app_renders' = app_renders \ {task}
          /\ \E ok \in BOOLEAN :
                IF ok
                THEN /\ app_preview' = task
                     /\ app_newest_shown' = Max(app_newest_shown, task.seq)
                     /\ UNCHANGED app_modal_error
                ELSE /\ app_modal_error' = [text |-> "Preview generation failed"]
                     /\ UNCHANGED <<app_preview, app_newest_shown>>
    /\ UNCHANGED <<app_config, app_assets, app_regen, app_notices, app_spawned,
                   app_notification>>
    /\ UNCHANGED <<gifVars, OtherVars>>

ShowNotification ==
    /\ ~app_panicked
    /\ UNCHANGED app_edits
    /\ app_notices > 0
    /\ app_notices' = app_notices - 1
    /\ app_notification' = TRUE
    /\ UNCHANGED <<app_config, app_assets, app_regen, app_renders, app_spawned,
                   app_preview, app_newest_shown, app_modal_error>>
    /\ UNCHANGED <<gifVars, OtherVars>>

-----------------------------------------------------------------------------
(* Two compose calls on one AssetManager, as the render tasks the            *)
(* application spawns make them: the statements of the two calls interleave. *)

\* One statement of compose on the canvas the one before left; an error
\* return ends the call.
ComposeStatement(p, cv, cfg, ovr, a) ==
    CASE p = "template" ->
           LET t == get_template(a, cfg.class_type, cfg.use_alternate_style)
           IN  [canvas |-> [width |-> t.width, height |-> t.height,
                            content |-> <<[op |-> "template", name |-> t.name]>>]]
      [] p = "scp_number" -> [canvas |-> render_scp_number(cv, cfg)]
      [] p = "object_class" ->
           [canvas |-> render_text(cv, cfg.object_class_text,
                          IF cfg.use_alternate_style
                          THEN AlternateLayout_OBJECT_CLASS_TEXT
                          ELSE CommonLayout_OBJECT_CLASS_TEXT,
                          cfg.object_class_font_size, cfg.class_text_offset,
                          cfg.class_line_spacing)]
      [] p = "user_image" ->
           LET src == UserImageSource(cfg, ovr)
               opn == IF src.kind = "file" THEN OpenUserImage(src.path)
                                           ELSE [ok |-> TRUE]
           IN  IF SkipUserImage(cfg) \/ src.kind = "none" THEN [canvas |-> cv]
               ELSE IF ~opn.ok THEN [error |-> opn.error]
               ELSE LET img == IF src.kind = "file" THEN opn.image ELSE src.image
                        out == process_user_image(img, cfg.resize_method,
                                                  NormalLayout_USER_IMAGE)
                    IN  [canvas |-> OverlayUserImage(cv, cfg, img, out)]
      [] p = "hazards" -> [canvas |-> place_hazards(cv, cfg, a)]
      [] p = "texture" ->
           [canvas |-> IF cfg.apply_texture
                       THEN Draw(cv, [op |-> "texture",
                                      texture |-> get_texture(a).name,
                                      opacity |-> cfg.texture_opacity])
                       ELSE cv]
      [] p = "burn" ->
           [canvas |-> IF cfg.apply_burn
                       THEN Draw(cv, [op |-> "burn", width |-> cv.width,
                                      height |-> cv.height])
                       ELSE cv]
      [] p = "resize" ->
           [canvas |-> IF cfg.output_resolution # LABEL_SIZE
                       THEN LET r == ImageopsResize(cv, cfg.output_resolution,
                                                    cfg.output_resolution)
                            IN  [width |-> r.width, height |-> r.height,
                                 content |-> Append(cv.content, [op |-> "resize"])]
                       ELSE cv]

\* compose as a function of its arguments: the statements of ComposeOrder
\* from the i-th on (st ranges over the one outcome of the i-th statement).
RECURSIVE ComposeFrom(_, _, _, _, _)
ComposeFrom(i, cv, cfg, ovr, a) ==
    IF i > Len(ComposeOrder) THEN [status |-> "Ok", image |-> cv]
    ELSE CHOOSE r \in
            {IF "error" \in DOMAIN st THEN [status |-> "Err", error |-> st.error]
             ELSE ComposeFrom(i + 1, st.canvas, cfg, ovr, a) :
                st \in {ComposeStatement(ComposeOrder[i], cv, cfg, ovr, a)}} : TRUE

compose(cfg, ovr, a) == ComposeFrom(1, NoImage, cfg, ovr, a)

\* The arguments of the two calls: configs that differ in every step, with
\* and without an override.
CallConfigs ==
    {DefaultConfig,
     [DefaultConfig EXCEPT !.class_type = "Keter", !.image_path = ReadablePath,
                           !.selected_hazard = "Cognitohazard", !.apply_texture = TRUE,
                           !.apply_burn = TRUE, !.output_resolution = 256],
     [DefaultConfig EXCEPT !.image_path = MissingPath, !.resize_method = "Letterbox"],
     [DefaultConfig EXCEPT !.use_alternate_style = TRUE,
                           !.selected_hazard = "Cognitohazard"]}
CallArgs == [config : CallConfigs, override : {NoImage, FrameImage}]

\* The asset files present when the two calls run: all of them, or all but
\* the hazard icon of one class.
TwoDisks == {AssetPaths, AssetPaths \ {icon_path("Cognitohazard", "Keter")}}

TwoIdle ==
    given = NoImage /\ running = 1 /\ parked = NoImage /\ interleaved = FALSE

\* The locals of the call the compose variables hold.
Locals ==
    [config |-> config, override |-> override, pc |-> pc, canvas |-> canvas,
     steps |-> steps, opened |-> opened, masks |-> masks, result |-> result]

\* Two render tasks call compose, each with its own config and override and
\* both with the same AssetManager.
ComposeCallTwice ==
    /\ pc = "idle"
    /\ assets # NoAssets
    /\ parked = NoImage
    /\ \E first \in CallArgs, second \in CallArgs :
          /\ config' = first.config
          /\ override' = first.override
          /\ parked' = [config |-> second.config, override |-> second.override,
                        pc |-> Head(ComposeOrder), canvas |-> NoImage,
                        steps |-> <<>>, opened |-> <<>>, masks |-> <<>>,
                        result |-> NoResult]
          /\ given' = [assets |-> assets, calls |-> <<first, second>>,
                       alone |-> <<compose(first.config, first.override, assets),
                                   compose(second.config, second.override, assets)>>]
    /\ pc' = Head(ComposeOrder)
    /\ running' = 1
    /\ UNCHANGED interleaved
    /\ UNCHANGED <<disk, assets, load_result, canvas, steps, opened, masks, result>>
    /\ UNCHANGED <<resizeVars, textureVars, burnVars, textVars, appVars>>

\* The executor runs the other task: the call that was running keeps its
\* locals, the other call's next statement is the next to run.
Switch ==
    /\ parked # NoImage
    /\ parked.pc # "returned"
    /\ parked' = Locals
    /\ config' = parked.config
    /\ override' = parked.override
    /\ pc' = parked.pc
    /\ canvas' = parked.canvas
    /\ steps' = parked.steps
    /\ opened' = parked.opened
    /\ masks' = parked.masks
    /\ result' = parked.result
    /\ running' = 3 - running
    /\ interleaved' = (interleaved \/ (steps # <<>> /\ pc # "returned"))
    /\ UNCHANGED <<disk, assets, load_result, given>>
    /\ UNCHANGED <<resizeVars, textureVars, burnVars, textVars, appVars>>

-----------------------------------------------------------------------------
(* The specifications                                                       *)

TextureIdle ==
    /\ tex_canvas = NoImage /\ tex_texture = NoImage
    /\ tex_opacity = 0 /\ tex_out = NoImage

BurnIdle ==
    /\ burn_cfg = NoImage /\ burn_noise = NoImage /\ burn_mask = NoImage
    /\ burn_mask2 = NoImage /\ burn_layers = <<>> /\ burn_seeds = <<>>
    /\ burn_canvas = NoImage /\ burn_out = NoImage

\* process_user_image on every source size and method
InitResize ==
    /\ InitResizeInputs
    /\ disk = AssetPaths /\ assets = NoAssets /\ load_result = "none"
    /\ ComposeIdle /\ TextureIdle /\ BurnIdle /\ TextIdle /\ AppIdle /\ TwoIdle
NextResize == ProcessUserImage
SpecResize == InitResize /\ [][NextResize]_vars

\* apply_texture on every canvas, texture and opacity
InitTexture ==
    /\ InitTextureInputs
    /\ disk = AssetPaths /\ assets = NoAssets /\ load_result = "none"
    /\ ComposeIdle /\ ResizeIdle /\ BurnIdle /\ TextIdle /\ AppIdle /\ TwoIdle
NextTexture == ApplyTexture
SpecTexture == InitTexture /\ [][NextTexture]_vars

\* generate_burn_mask on every burn config and noise, then the burn step
InitBurn ==
    /\ InitBurnInputs
    /\ disk = AssetPaths /\ assets = NoAssets /\ load_result = "none"
    /\ ComposeIdle /\ ResizeIdle /\ TextureIdle /\ TextIdle /\ AppIdle /\ TwoIdle
NextBurn ==
    \/ GenerateBurnMask
    \/ GenerateBurnMaskAgain
    \/ ApplyBurnMask
SpecBurn == InitBurn /\ [][NextBurn]_vars

\* render_text and render_text_with_stroke on every text and region
InitText ==
    /\ InitTextInputs
    /\ disk = AssetPaths /\ assets = NoAssets /\ load_result = "none"
    /\ ComposeIdle /\ ResizeIdle /\ TextureIdle /\ BurnIdle /\ AppIdle /\ TwoIdle
NextText ==
    \/ RenderText
    \/ RenderTextWithStroke
SpecText == InitText /\ [][NextText]_vars

\* Asset loading, then two compose calls at once
InitTwo ==
    /\ disk \in TwoDisks /\ assets = NoAssets /\ load_result = "none"
    /\ ComposeIdle /\ ResizeIdle /\ TextureIdle /\ BurnIdle /\ TextIdle /\ AppIdle
    /\ TwoIdle
NextTwo ==
    \/ LoadAll
    \/ AssetsSupplied
    \/ ComposeCallTwice
    \/ Switch
    \/ SelectTemplate
    \/ RenderScpNumber
    \/ RenderObjectClass
    \/ PlaceUserImage
    \/ PlaceHazards
    \/ ApplyTextureStep
    \/ BurnStep
    \/ ResizeOutput
SpecTwo == InitTwo /\ [][NextTwo]_vars

\* The application from start-up, under any sequence of messages
InitAppSpec ==
    /\ InitApp
    /\ disk = AssetPaths /\ assets = NoAssets /\ load_result = "none"
    /\ ComposeIdle /\ ResizeIdle /\ TextureIdle /\ BurnIdle /\ TextIdle /\ TwoIdle
NextApp ==
    \/ AssetsLoaded
    \/ TextureOpacityChanged
    \/ BrightnessChanged
    \/ ContrastChanged
    \/ ScpNumberFontSizeChanged
    \/ ObjectClassFontSizeChanged
    \/ ScpNumberFontSizeTextChanged
    \/ ObjectClassFontSizeTextChanged
    \/ OpacityTextChanged
    \/ BrightnessTextChanged
    \/ ContrastTextChanged
    \/ BurnAmountChanged
    \/ ResetText
    \/ ConfigLoaded
    \/ ProjectLoaded
    \/ RegeneratePreview
    \/ PreviewGenerated
    \/ ShowNotification
SpecApp == InitAppSpec /\ [][NextApp]_vars

\* The application from start-up, under the messages of the image dialog,
\* the GIF playback and the loading of configs and projects
NextGif ==
    \/ AssetsLoaded
    \/ ImageSelected
    \/ AdvanceFrame
    \/ ToggleGifPlayback
    \/ ConfigLoaded
    \/ ProjectLoaded
    \/ RegeneratePreview
    \/ PreviewGenerated
    \/ ShowNotification
SpecGif == InitAppSpec /\ [][NextGif]_vars

\* Asset loading, then one compose call
Init ==
    /\ disk \in Disks /\ assets = NoAssets /\ load_result = "none"
    /\ ComposeIdle /\ ResizeIdle /\ TextureIdle /\ BurnIdle /\ TextIdle /\ AppIdle /\ TwoIdle
Next ==
    \/ LoadAll
    \/ AssetsSupplied
    \/ ComposeCall
    \/ SelectTemplate
    \/ RenderScpNumber
    \/ RenderObjectClass
    \/ PlaceUserImage
    \/ PlaceHazards
    \/ ApplyTextureStep
    \/ BurnStep
    \/ ResizeOutput
Spec == Init /\ [][Next]_vars

-----------------------------------------------------------------------------
(* Properties of the resizer (SpecResize)                                   *)

\* C1: for every source image of positive size and each of the three resize
\* policies, process_user_image returns (it does not panic) an image whose
\* width and height are exactly the target rectangle's.
ResizeOutputIsTargetSize ==
    processed # NoImage =>
        /\ processed # Panicked
        /\ processed.width = NormalLayout_USER_IMAGE.width
        /\ processed.height = NormalLayout_USER_IMAGE.height

\* A 1000 x 1 source was cropped to an empty view and still came back resized.
CroppedEmptyAndResized ==
    /\ processed # NoImage /\ processed # Panicked
    /\ method = "CropToFit"
    /\ image.width = 1000 /\ image.height = 1
    /\ processed.from.width = 0

-----------------------------------------------------------------------------
(* Properties of asset loading and compose (Spec)                           *)

Returned == pc = "returned"
InSteps(name) == \E i \in DOMAIN steps : steps[i] = name
Drawn(kind) == {i \in DOMAIN canvas.content : canvas.content[i].op = kind}

\* C2: every successful compose call returns a raster whose width and height
\* both equal config.output_resolution, for every configuration and every
\* AssetManager, one without the wanted template included.
OutputAtConfiguredResolution ==
    result.status = "Ok" =>
        /\ result.image.width = config.output_resolution
        /\ result.image.height = config.output_resolution

\* C3: within one compose call each step runs at most once, and the steps run
\* in the order template, SCP number, object class, user image, hazard icon,
\* texture, burn, resize: no step runs before one that precedes it in the list.
PipelineOrder ==
    <<"template", "scp_number", "object_class", "user_image", "hazards", "texture",
      "burn", "resize">>
Rank(name) == CHOOSE k \in DOMAIN PipelineOrder : PipelineOrder[k] = name
StepsOnceInOrder ==
    /\ \A i \in DOMAIN steps : \E k \in DOMAIN PipelineOrder : PipelineOrder[k] = steps[i]
    /\ \A i, j \in DOMAIN steps : i < j => Rank(steps[i]) < Rank(steps[j])

\* A call that ran all eight steps.
AllStepsRan == Returned /\ steps = PipelineOrder

\* The size of the canvas from the template to the output resize.
WorkingCanvas == get_template(assets, config.class_type, config.use_alternate_style)

AlternateStyleSkipsUserImage ==
    config.use_alternate_style =>
        /\ opened = <<>>
        /\ canvas # NoImage => Drawn("user_image") = {}
        /\ pc = After("user_image") => Len(canvas.content) = 3
        /\ result.status \notin {"Err", "panic"}
        /\ Returned => result.status = "Ok"

\* An alternate-style call that named a missing file and returned a raster.
AlternateStyleWithMissingFile ==
    /\ Returned /\ result.status = "Ok"
    /\ config.use_alternate_style
    /\ config.image_path = MissingPath /\ override = NoImage

\* C6: compose returns a complete raster or a typed error, never a partial
\* image: only opening the user's image can fail, and when it does compose
\* returns the error without running the hazard, texture, burn or resize step.
CompleteRasterOrError ==
    /\ result.status \in {"none", "Ok", "Err"}
    /\ Returned <=> result # NoResult
    /\ result.status = "Err" =>
         /\ result.error = "ImageLoading"
         /\ steps # <<>> /\ steps[Len(steps)] = "user_image"
         /\ opened = <<MissingPath>> /\ config.image_path = MissingPath
         /\ ~InSteps("hazards") /\ ~InSteps("texture")
         /\ ~InSteps("burn") /\ ~InSteps("resize")
         /\ masks = <<>>
         /\ Drawn("hazard") = {} /\ Drawn("texture") = {}
         /\ Drawn("burn") = {} /\ Drawn("resize") = {}
    /\ result.status = "Ok" =>
         /\ result.image = canvas
         /\ InSteps("template") /\ InSteps("scp_number") /\ InSteps("object_class")
         /\ InSteps("user_image") /\ InSteps("hazards")
         /\ config.apply_texture <=> InSteps("texture")
         /\ config.apply_burn <=> InSteps("burn")
         /\ (config.output_resolution # LABEL_SIZE) <=> InSteps("resize")
         /\ (config.selected_hazard # None) <=> (Drawn("hazard") # {})

\* The user's file did not open while a hazard, the texture and the burn were
\* all asked for.
UserImageOpenFailed ==
    /\ result.status = "Err"
    /\ config.selected_hazard # None /\ config.apply_texture /\ config.apply_burn

\* C7: a missing hazard icon or a missing texture overlay fails neither
\* load_all nor a render, the 1 x 1 placeholder is used in its place; only a
\* missing primary template makes load_all fail, and a missing alternate
\* template falls back to the primary.
UserImageOpens ==
    config.use_alternate_style \/ override # NoImage \/ config.image_path # MissingPath
MissingAssetsDegrade ==
    /\ load_result \in {"Ok", "Err"} =>
         (load_result = "Err" <=>
            \E class \in ClassType : label_path(class, FALSE) \notin disk)
    /\ load_result = "Err" => assets = NoAssets /\ pc = "idle"
    /\ load_result = "Ok" =>
         /\ \A class \in ClassType :
              /\ assets.templates[class].primary.name = label_path(class, FALSE)
              /\ assets.templates[class].alternate.name =
                    IF label_path(class, TRUE) \in disk
                    THEN label_path(class, TRUE) ELSE label_path(class, FALSE)
         /\ (Returned /\ UserImageOpens) => result.status = "Ok"
         /\ (Returned /\ result.status = "Ok" /\ config.selected_hazard # None) =>
              \A i \in Drawn("hazard") :
                 canvas.content[i].icon =
                    IF icon_path(config.selected_hazard, config.class_type) \in disk
                    THEN icon_path(config.selected_hazard, config.class_type)
                    ELSE placeholder_image.name
         /\ (Returned /\ result.status = "Ok" /\ config.apply_texture) =>
              \A i \in Drawn("texture") :
                 canvas.content[i].texture =
                    IF texture_path \in disk THEN texture_path
                    ELSE placeholder_image.name

\* A render that placed the placeholder for the selected hazard's missing icon.
RenderedWithMissingIcon ==
    /\ load_result = "Ok" /\ Returned /\ result.status = "Ok"
    /\ config.selected_hazard # None
    /\ icon_path(config.selected_hazard, config.class_type) \notin disk
    /\ \E i \in Drawn("hazard") : canvas.content[i].icon = placeholder_image.name

-----------------------------------------------------------------------------
(* Properties of the texture blend (SpecTexture)                            *)

Rgb(pixel) == <<pixel[1], pixel[2], pixel[3]>>
InsideTexture(p) == p[1] < tex_texture.width /\ p[2] < tex_texture.height

\* C8: for every canvas and texture, the texture overlay applied with opacity
\* 0.0 leaves every canvas pixel as the render with the overlay disabled has it.
OpacityZeroIsOverlayDisabled ==
    (tex_out # NoImage /\ tex_opacity = 0) =>
        /\ tex_out = TextureStep(tex_canvas, tex_texture, FALSE, tex_opacity)
        /\ tex_out = tex_canvas

\* Opacity 0.0 over a canvas pixel whose texture pixel differs from it.
BlendedAtOpacityZero ==
    /\ tex_out # NoImage /\ tex_opacity = 0
    /\ \E p \in DOMAIN tex_canvas.px :
         InsideTexture(p) /\ Rgb(tex_texture.px[p]) # Rgb(tex_canvas.px[p])

\* C9: for every canvas and texture, the texture overlay applied with opacity
\* 1.0 makes R, G and B of every canvas pixel inside the texture's bounds
\* equal to the texture's R, G and B at that coordinate.
OpacityOneCopiesTextureRgb ==
    (tex_out # NoImage /\ tex_opacity = 1000) =>
        \A p \in DOMAIN tex_out.px :
            InsideTexture(p) => Rgb(tex_out.px[p]) = Rgb(tex_texture.px[p])

\* Opacity 1.0 with a texture smaller than the canvas and unlike it.
BlendedAtOpacityOne ==
    /\ tex_out # NoImage /\ tex_opacity = 1000
    /\ \E p \in DOMAIN tex_canvas.px :
         InsideTexture(p) /\ Rgb(tex_texture.px[p]) # Rgb(tex_canvas.px[p])
    /\ \E p \in DOMAIN tex_canvas.px : ~InsideTexture(p)

-----------------------------------------------------------------------------
(* Properties of the burn mask (SpecBurn)                                   *)

\* C10: with burn_amount = 0.0 every value of the generated burn mask is 0,
\* whatever the burn type, the noise, the edge softness, the irregularity,
\* the jitter drawn and the char value, so the burn step leaves the canvas
\* unchanged.
BurnAmountZeroLeavesCanvas ==
    burn_mask # NoImage =>
        (burn_cfg.burn_amount = 0 =>
            /\ \A p \in DOMAIN burn_mask.px : burn_mask.px[p] = 0
            /\ burn_out # NoImage => burn_out = burn_canvas)

\* burn_amount 0.0 where the curve reached infinity before the scaling (a
\* zero noise level under a negative char power), and where it reached one.
BurnAmountZeroOverInfinity ==
    /\ burn_out # NoImage
    /\ burn_cfg.burn_amount = 0 /\ burn_cfg.burn_irregularity = 0
    /\ \E p \in DOMAIN burn_mask.px :
         LET level == burn_layer(burn_cfg, burn_noise)[p]
             val   == powf(clamp(powf(Fin((level * FixOne) \div 255),
                                      softness_exponent(burn_cfg))),
                           char_power(burn_cfg))
         IN  val = FInf /\ scale(val, burn_cfg.burn_amount) = FNaN

\* C11: with burn_irregularity = 0, two calls of generate_burn_mask with the
\* same seed, burn parameters, width and height return byte-identical masks,
\* whatever the unseeded random source yields in either call.
SameMaskWithoutIrregularity ==
    (burn_mask2 # NoImage /\ burn_cfg.burn_irregularity = 0) => burn_mask2 = burn_mask

\* Two calls without irregularity over a mask with a value strictly between
\* black and white, where a jitter would have shown.
TwoCallsWithoutIrregularity ==
    /\ burn_mask2 # NoImage /\ burn_cfg.burn_irregularity = 0
    /\ \E p \in DOMAIN burn_mask.px : burn_mask.px[p] > 0 /\ burn_mask.px[p] < 255

-----------------------------------------------------------------------------
(* Properties of the text renderer (SpecText)                               *)

RECURSIVE JoinLines(_)
JoinLines(lines) ==
    IF lines = <<>> THEN <<>>
    ELSE IF Len(lines) = 1 THEN lines[1]
    ELSE lines[1] \o <<EscapedNewline>> \o JoinLines(Tail(lines))
WithoutEmptyLines(text) ==
    JoinLines(SelectSeq(SplitLines(text), LAMBDA line : line # <<>>))
HasEmptyAndDrawnLines(text) ==
    LET lines == SplitLines(text)
    IN  /\ Len(lines) > 1
        /\ \E i \in DOMAIN lines : lines[i] = <<>>
        /\ \E i \in DOMAIN lines : ~IsBlank(lines[i])

\* C12: for a multi-line text with empty lines render_text draws the non-empty
\* lines exactly where it draws them when the empty lines are absent from the
\* input: an empty line takes no vertical slot.
EmptyLinesTakeNoSlot ==
    (txt_call = "render_text" /\ HasEmptyAndDrawnLines(txt_args.text)) =>
        txt_canvas =
          TextRenderer_render_text(
              [txt_args EXCEPT !.text = WithoutEmptyLines(txt_args.text)])

\* C13: render_text and render_text_with_stroke called with the empty string
\* make no draw call, so no pixel of the canvas changes, for every region,
\* offset and line spacing.
EmptyTextDrawsNothing ==
    (txt_call # "none" /\ txt_args.text = <<>>) => txt_canvas = <<>>

\* render_text returned from a call with the empty string on a centred region.
EmptyTextRendered ==
    /\ txt_call = "render_text" /\ txt_args.text = <<>>
    /\ txt_args.region.alignment = "Center"

\* C21: the lines render_text splits a text into are drawn in order, except
\* that a line holding nothing but whitespace is left out exactly when the
\* text has more than one line; a single line is drawn even when it is
\* whitespace-only. (The empty string returns before the split and has no
\* lines.)
DrawnLinesFollowSkipRule ==
    (txt_call = "render_text" /\ txt_args.text # <<>>) =>
        LET lines == SplitLines(txt_args.text)
            whitespace(l) == \A j \in DOMAIN l : l[j] = " "
            kept == SelectSeq(lines, LAMBDA l : ~(Len(lines) > 1 /\ whitespace(l)))
        IN  /\ Len(txt_canvas) = Len(kept)
            /\ \A i \in DOMAIN kept : txt_canvas[i].line = kept[i]

\* render_text returned from a whitespace-only single line with one draw
\* call made.
WhitespaceOnlySingleLineDrawn ==
    /\ txt_call = "render_text" /\ txt_args.text = <<" ">>
    /\ Len(txt_canvas) = 1

-----------------------------------------------------------------------------
(* Properties of the application (SpecApp)                                  *)

InRange(v, lo, hi) == v # NaN /\ lo <= v /\ v <= hi

ConfigInRanges(c) ==
    /\ InRange(c.texture_opacity, 0, 1000)
    /\ InRange(c.contrast, 0, 2000)
    /\ InRange(c.brightness, -1000, 1000)
    /\ InRange(c.scp_number_font_size, 24000, 72000)
    /\ InRange(c.object_class_font_size, 24000, 72000)
    /\ InRange(c.burn_amount, 0, 1000)

\* C14: after any sequence of GUI messages, the config a render task hands to
\* compose has texture_opacity in [0,1], contrast in [0,2], brightness in
\* [-1,1], both font sizes in [24,72] and burn_amount in [0,1].
ComposedConfigInRanges ==
    \A task \in app_renders : ConfigInRanges(task.config)

-----------------------------------------------------------------------------
(* Properties of the resizer's geometry (SpecResize)                        *)

\* C15: letterbox scales the source to fit inside the target: scale_w and
\* scale_h do not exceed the target's width and height, at least one of them
\* equals the target's, the offsets (target_w - scale_w) / 2 and
\* (target_h - scale_h) / 2 are computed without going below zero, and the
\* scaled source lies wholly inside the target-sized white background.
LetterboxFitsInsideTarget ==
    (processed # NoImage /\ method = "Letterbox") =>
        /\ processed # Panicked
        /\ LET g  == processed.geom
               tw == NormalLayout_USER_IMAGE.width
               th == NormalLayout_USER_IMAGE.height
           IN  /\ ~g.underflow
               /\ g.scale_w <= tw /\ g.scale_h <= th
               /\ g.scale_w = tw \/ g.scale_h = th
               /\ g.x >= 0 /\ g.y >= 0
               /\ g.x = (tw - g.scale_w) \div 2
               /\ g.y = (th - g.scale_h) \div 2
               /\ processed.from.width = g.scale_w
               /\ processed.from.height = g.scale_h
               /\ g.x + processed.from.width <= tw
               /\ g.y + processed.from.height <= th
               /\ processed.width = tw /\ processed.height = th

\* A tall source was letterboxed: bars left and right of it.
LetterboxedWithSideBars ==
    /\ processed # NoImage /\ processed # Panicked /\ method = "Letterbox"
    /\ processed.geom.scale_w < NormalLayout_USER_IMAGE.width
    /\ processed.geom.x > 0

\* C16: the crop rectangle of crop-to-fit lies inside the source (x + crop_w
\* and y + crop_h do not exceed the source's width and height, and neither
\* subtraction goes below zero), keeps the full extent of one axis, is
\* centred on the other, and has the target's aspect ratio up to the
\* truncation of the integer division.
CropRectInsideSource ==
    (processed # NoImage /\ method = "CropToFit") =>
        /\ processed # Panicked
        /\ LET g  == processed.geom
               tw == NormalLayout_USER_IMAGE.width
               th == NormalLayout_USER_IMAGE.height
           IN  /\ ~g.underflow
               /\ g.x >= 0 /\ g.y >= 0
               /\ g.x + g.crop_w <= image.width
               /\ g.y + g.crop_h <= image.height
               /\ g.x = (image.width - g.crop_w) \div 2
               /\ g.y = (image.height - g.crop_h) \div 2
               /\ \/ /\ g.crop_h = image.height /\ g.y = 0
                     /\ g.crop_w * th <= image.height * tw
                     /\ image.height * tw < (g.crop_w + 1) * th
                  \/ /\ g.crop_w = image.width /\ g.x = 0
                     /\ g.crop_h * tw <= image.width * th
                     /\ image.width * th < (g.crop_h + 1) * tw

\* A wide source was cropped on its width, around its centre.
CroppedOnWidth ==
    /\ processed # NoImage /\ processed # Panicked /\ method = "CropToFit"
    /\ processed.geom.crop_w < image.width
    /\ processed.geom.crop_w > 0
    /\ processed.geom.x > 0

-----------------------------------------------------------------------------
(* Properties of the burn mask's layers (SpecBurn)                          *)

\* C17: for the layered-gradient (Perlin) burn type the base layer is sampled
\* at burn_scale x burn_scale_multiplier and the detail layer at
\* burn_scale x burn_detail x burn_scale_multiplier, the multiplier applied
\* once to each, and the mask is made from base*(1-blend) + detail*blend with
\* blend = burn_detail_blend.
LayersScaledByMultiplierOnce ==
    (burn_mask # NoImage /\ burn_cfg.burn_type = "Perlin") =>
        /\ Len(burn_layers) = 2
        /\ burn_layers[1].scale =
               F64Mul(burn_cfg.burn_scale, burn_cfg.burn_scale_multiplier)
        /\ burn_layers[2].scale =
               F64Mul(F64Mul(burn_cfg.burn_scale, burn_cfg.burn_detail),
                      burn_cfg.burn_scale_multiplier)
        /\ \A p \in DOMAIN burn_noise.base :
               burn_layer(burn_cfg, burn_noise)[p] =
                   blend_images(burn_noise.base[p], burn_noise.detail[p],
                                burn_cfg.burn_detail_blend)

-----------------------------------------------------------------------------
(* Properties of concurrent compose calls (SpecTwo)                         *)

\* The locals of call k, whichever of the two is running.
CallLocals(k) == IF running = k THEN Locals ELSE parked

\* C18: compose does not modify the asset set or the config it is given and
\* keeps nothing between calls, so under any interleaving of the statements
\* of two calls on the same asset set each call returns what it returns
\* when it runs alone.
InterleavedCallsAsAlone ==
    given # NoImage =>
        /\ assets = given.assets
        /\ \A k \in {1, 2} :
              /\ CallLocals(k).config = given.calls[k].config
              /\ CallLocals(k).override = given.calls[k].override
              /\ CallLocals(k).pc = "returned" =>
                    CallLocals(k).result = given.alone[k]

\* Two calls with different arguments have both returned a raster after
\* their statements were interleaved.
BothReturnedAfterInterleaving ==
    /\ given # NoImage /\ interleaved
    /\ given.calls[1] # given.calls[2]
    /\ \A k \in {1, 2} :
          CallLocals(k).pc = "returned" /\ CallLocals(k).result.status = "Ok"

-----------------------------------------------------------------------------
(* Properties of the preview (SpecApp)                                      *)

\* C19: stale render results are discarded: with several render tasks in
\* flight that complete in any order, the result of a superseded task never
\* replaces the preview of a task spawned after it, so the preview shown is
\* always that of the latest-spawned task whose result has arrived.
PreviewIsNewestShown ==
    app_preview # NoImage => app_preview.seq = app_newest_shown

-----------------------------------------------------------------------------
(* Properties of the image override (Spec)                                  *)

-----------------------------------------------------------------------------
(* Properties of the text fields of compose (Spec)                          *)

\* The draw_text_mut calls of a render_text call recorded on the canvas; the
\* reference glyphs measure 49 pixels at the recorded font sizes.
TextCalls(op) ==
    TextRenderer_render_text(
        [text |-> op.text, region |-> op.region, font_size |-> op.font_size,
         offset |-> op.offset, line_spacing_multiplier |-> op.line_spacing,
         glyph_height |-> 49])

ScpNumberRegions == {CommonLayout_SCP_NUMBER, AlternateLayout_SCP_NUMBER}

\* C22: each text field is laid out with its own line-spacing multiplier: the
\* lines of the SCP number are drawn where config.scp_line_spacing puts them
\* and the lines of the object class where config.class_line_spacing puts
\* them, so class_line_spacing has no effect on the SCP number.
FieldsLaidOutWithOwnSpacing ==
    InSteps("object_class") =>
        \A i \in Drawn("text") :
            LET op == canvas.content[i]
                own == IF op.region \in ScpNumberRegions
                       THEN config.scp_line_spacing ELSE config.class_line_spacing
            IN  TextCalls(op) = TextCalls([op EXCEPT !.line_spacing = own])

-----------------------------------------------------------------------------
(* Properties of the burn mask's response curve (SpecBurn)                  *)

\* The burn controls' ranges (ui/input_panel.rs), in thousandths.
BurnConfigInRanges(cfg) ==
    /\ cfg.burn_amount \in 0 .. 1000
    /\ cfg.burn_edge_softness \in 0 .. 1000
    /\ cfg.burn_irregularity \in 0 .. 1000
    /\ cfg.burn_char \in 0 .. 1000

\* C23: each mask value is the noise level normalised to [0, 1], raised to
\* the power 1 + edge_softness * 4, moved by a jitter in [-0.5, 0.5] *
\* irregularity and clamped to [0, 1], raised to the power 1 - char * 0.9,
\* multiplied by burn_amount and packed, each stage taking the one before;
\* for parameters in their ranges every value is within 0 .. 255 and the
\* mask has the requested width and height.
BurnStagesInOrder ==
    (burn_mask # NoImage /\ BurnConfigInRanges(burn_cfg)) =>
        /\ burn_mask.width = burn_noise.width
        /\ burn_mask.height = burn_noise.height
        /\ DOMAIN burn_mask.px = Coords(burn_noise.width, burn_noise.height)
        /\ \A p \in DOMAIN burn_mask.px :
             /\ burn_mask.px[p] \in 0 .. 255
             /\ \E rand \in Rands :
                  LET normalised == Fin((burn_layer(burn_cfg, burn_noise)[p] * FixOne) \div 255)
                      softened   == powf(normalised, softness_exponent(burn_cfg))
                      moved      == jitter(rand, burn_cfg)
                      jittered   == clamp(add(softened, moved))
                      charred    == powf(jittered, char_power(burn_cfg))
                      scaled     == scale(charred, burn_cfg.burn_amount)
                  IN  /\ 2 * moved >= 0 - ToFix(burn_cfg.burn_irregularity)
                      /\ 2 * moved <= ToFix(burn_cfg.burn_irregularity)
                      /\ burn_mask.px[p] = pack(scaled)

\* A mask made with every stage in play: softness, irregularity and char
\* above zero, and a value strictly between black and white.
MaskWithEveryStage ==
    /\ burn_mask # NoImage /\ BurnConfigInRanges(burn_cfg)
    /\ burn_cfg.burn_edge_softness > 0 /\ burn_cfg.burn_irregularity > 0
    /\ burn_cfg.burn_char > 0 /\ burn_cfg.burn_amount > 0
    /\ \E p \in DOMAIN burn_mask.px : burn_mask.px[p] > 0 /\ burn_mask.px[p] < 255

-----------------------------------------------------------------------------
(* Frame and range properties of apply_texture (SpecTexture)                *)

\* C24: apply_texture returns a canvas of the same pixels' coordinates
\* whatever the two sizes are, leaves the alpha channel of every pixel and
\* the whole of every pixel outside the texture's bounds as they were, and
\* its per-channel sum c * (255 - alpha) + t * alpha stays within 16 bits:
\* for the pixels blended, whose new value is the unwrapped sum divided by
\* 255, and at the largest c and t for every 8-bit alpha.
TextureFrameAndSumRange ==
    /\ tex_out # NoImage =>
         /\ tex_out.width = tex_canvas.width /\ tex_out.height = tex_canvas.height
         /\ DOMAIN tex_out.px = DOMAIN tex_canvas.px
         /\ \A p \in DOMAIN tex_out.px :
              /\ tex_out.px[p][4] = tex_canvas.px[p][4]
              /\ ~InsideTexture(p) => tex_out.px[p] = tex_canvas.px[p]
              /\ InsideTexture(p) =>
                   \A ch \in 1 .. 3 :
                       LET sum == tex_canvas.px[p][ch] * (255 - alpha(tex_opacity))
                                  + tex_texture.px[p][ch] * alpha(tex_opacity)
                       IN  sum <= 65535 /\ tex_out.px[p][ch] = sum \div 255
    /\ \A a \in 0 .. 255 : \A c, t \in {0, 255} : c * (255 - a) + t * a <= 65535

\* A texture narrower than the canvas blended at an opacity between the
\* ends, changing a pixel whose alpha differs from the texture's.
BlendedInsideLeftOutside ==
    /\ tex_out # NoImage /\ tex_opacity = 500
    /\ \E p \in DOMAIN tex_canvas.px : ~InsideTexture(p)
    /\ \E p \in DOMAIN tex_canvas.px :
         /\ InsideTexture(p)
         /\ Rgb(tex_out.px[p]) # Rgb(tex_canvas.px[p])
         /\ tex_texture.px[p][4] # tex_canvas.px[p][4]

-----------------------------------------------------------------------------
(* Properties of the application's text fields (SpecApp)                    *)

\* The text fields with a range: the config field, the range, the default.
RangedTextFields ==
    {[field |-> "scp_number_font_size", lo |-> 24000, hi |-> 72000, default |-> 60000],
     [field |-> "object_class_font_size", lo |-> 24000, hi |-> 72000, default |-> 60000],
     [field |-> "texture_opacity", lo |-> 0, hi |-> 1000, default |-> 300],
     [field |-> "brightness", lo |-> -1000, hi |-> 1000, default |-> 0],
     [field |-> "contrast", lo |-> 0, hi |-> 2000, default |-> 1000]}

\* C25: a step of a text field's handler on a parsable number outside the
\* field's range leaves the config field at the clamped value, the one the
\* notification names, and requests a preview regeneration.
OutOfRangeTextIsClamped ==
    [][\A f \in RangedTextFields : \A v \in {f.lo - 1000, f.hi + 1000} :
          (/\ UserMessage
           /\ StoreTextValue(f.field, f.lo, f.hi, f.default, NumberText(v))
           /\ UNCHANGED <<gifVars, OtherVars>>)
          => /\ app_config'[f.field] = F32Clamp(v, f.lo, f.hi)
             /\ app_regen' = app_regen + 1]_vars

-----------------------------------------------------------------------------
(* Properties of the application's image selection and GIF playback         *)
(* (SpecGif)                                                                *)

\* C26: whenever gif_frames is Some, the frame list is non-empty and
\* current_frame_index is smaller than its length, so that neither
\* AdvanceFrame nor RegeneratePreview panics on the remainder or the index.
GifFramesIndexable ==
    /\ ~app_panicked
    /\ app_gif_frames # NoImage =>
         /\ Len(app_gif_frames.frames) > 0
         /\ app_frame_index < Len(app_gif_frames.frames)

\* The selections that fail, with the text modal_error gets.
FailingSelections ==
    {[picked |-> [ok |-> FALSE, error |-> "No image selected"],
      text |-> "No image selected"],
     [picked |-> [ok |-> TRUE, path |-> "broken.gif"], text |-> "Failed to load GIF"],
     [picked |-> [ok |-> TRUE, path |-> "broken.png"], text |-> "Could not open image"]}

\* C27: a step of ImageSelected on a cancelled dialog, a GIF that does not
\* decode or an image that does not decode leaves config.image_path,
\* gif_frames, gif_frame_delays, current_frame_index and validation as they
\* were, sets modal_error to the error's text and requests no preview
\* regeneration.
FailedSelectionKeepsState ==
    [][\A f \in FailingSelections :
          (/\ UserMessage
           /\ ImageSelectedResult(f.picked)
           /\ UNCHANGED <<app_assets, app_notices, app_renders, app_spawned,
                          app_preview, app_newest_shown, app_notification,
                          app_panicked>>
           /\ UNCHANGED OtherVars)
          => /\ app_config'.image_path = app_config.image_path
             /\ app_gif_frames' = app_gif_frames
             /\ app_gif_frame_delays' = app_gif_frame_delays
             /\ app_frame_index' = app_frame_index
             /\ app_validation' = app_validation
             /\ app_modal_error' = [text |-> f.text]
             /\ app_regen' = app_regen]_vars

\* A GIF failed to decode while the two frames of an earlier one were
\* loaded and that one's preview regeneration was still queued.
GifDecodeFailedOverLoadedGif ==
    /\ app_modal_error = [text |-> "Failed to load GIF"]
    /\ app_gif_frames # NoImage
    /\ app_config.image_path = "anim.gif"
    /\ Len(app_gif_frames.frames) = 2
    /\ app_regen = 1

\* C28: once a config or project has been loaded and no image has been
\* selected since, every render task RegeneratePreview spawns gets no image
\* override: the loaded configuration's own image is what compose shows.
NoOverrideAfterLoad ==
    [][(app_loaded /\ app_spawned' = app_spawned + 1) =>
          \A task \in app_renders' \ app_renders : task.override = NoImage]_vars

-----------------------------------------------------------------------------
(* Properties of the burn mask's seeds (SpecBurn)                           *)

\* b is a + 1 as a number: the sum without overflow.
IsSuccessor(a, b) ==
    \/ a.lo < U16_MAX /\ b.hi = a.hi /\ b.lo = a.lo + 1
    \/ a.lo = U16_MAX /\ b.hi = a.hi + 1 /\ b.lo = 0

\* C29: for every 32-bit burn seed, u32::MAX included, a call of
\* generate_burn_mask returns a mask, and for the Patches burn type the
\* turbulence noise is seeded with burn_seed + 1, the sum not overflowing.
PatchesSeedNeverOverflows ==
    burn_seeds # <<>> =>
        /\ burn_mask # NoImage
        /\ burn_cfg.burn_type = "Patches" =>
             /\ burn_seeds[2].fn = "Perlin::new"
             /\ IsSuccessor(burn_cfg.burn_seed, burn_seeds[2].seed)

-----------------------------------------------------------------------------
(* Properties of the resizer's intermediate sizes (SpecResize)              *)

\* C30: for every source of positive width and height, very wide and very
\* tall ones included, the crop rectangle of Crop-to-fit has crop_w >= 1 and
\* crop_h >= 1 and the scaled size of Letterbox has scale_w >= 1 and
\* scale_h >= 1.
IntermediateSizesPositive ==
    (processed # NoImage /\ processed # Panicked) =>
        /\ processed.via = "CropToFit" =>
             processed.geom.crop_w >= 1 /\ processed.geom.crop_h >= 1
        /\ processed.via = "Letterbox" =>
             processed.geom.scale_w >= 1 /\ processed.geom.scale_h >= 1

====
